---- MODULE Spec2Model ----
(***************************************************************************)
(* The session orchestrator of the smart speaker (main.py, SmartSpeaker)   *)
(* as a state machine on the asyncio event loop: one step of the model is  *)
(* what one task runs between two suspension points (await).               *)
(*                                                                         *)
(* Tasks: handle_commands (hpc is its position), the record_audio tasks    *)
(* (rec), the start_streaming tasks of the audio handler (str), the        *)
(* transport callbacks play_audio / stop_playback, handle_tool_call (tc).  *)
(* The audio device, the audio handler and the transport are collaborators *)
(* outside the repository: their outcomes (open fails, read fails, send    *)
(* fails, a task ends by itself) are nondeterministic choices.             *)
(*                                                                         *)
(* Specifications: Spec (the running session), SpecTools (tool calls),     *)
(* SpecJoint (one tool call against the command loop), SpecShutdown (the   *)
(* session with cleanup), SpecRegistry (execute_tool on any registry),     *)
(* SpecStart (the session from the call of start), SpecClient (listen and  *)
(* handle_event of realtime_client.py), SpecDispatcher (dispatcher.py),    *)
(* SpecWeather (the methods of tools/weather.py), SpecAudioHandler         *)
(* (audio_handler.py), SpecAudioIO (audio.py), SpecSpeech (speech.py).     *)
(***************************************************************************)
EXTENDS Integers, Sequences, FiniteSets, TLC

\* ------------------------------------------------------------ bounds
MaxCmds == 4        \* commands put on external_queue in one run
MaxReads == 3       \* frames read from the capture device in one run
MaxBuffer == 2      \* chunks the playback buffer holds at most
MaxCalls == 2       \* tool calls delivered to handle_tool_call in one run
ChunkLen == 2       \* samples in one captured frame
MaxTools == 2       \* tools in a registry given to execute_tool
MaxJointCmds == 3   \* commands in a run that also delivers a tool call
MaxTargets == 2     \* queues in the target_queues given to the dispatcher
MaxDispatch == 3    \* commands put on the dispatcher's external_queue
MaxQueueSize == 1   \* largest maxsize of a bounded target queue
MaxMsgs == 3        \* messages that arrive on the websocket in one run
MaxAhStreams == 2   \* streams an AudioHandler opens in one run
MaxAhReads == 3     \* reads the record loops of an AudioHandler make in one run
MaxIoStreams == 3   \* streams an AudioIOHandler opens in one run
MaxIoReads == 3     \* reads an AudioIOHandler makes in one run

Commands == {"r", "enter", "x"}      \* "x": any other command value
TaskIds == 1..MaxCmds
StreamIds == 1..MaxCmds
CallIds == 1..MaxCalls
AhTaskIds == 1..MaxAhStreams
None == 0

VARIABLES
    \* SmartSpeaker fields (main.py __init__)
    stream, frames, recording, mic_muted, speaker_muted, ready,
    external_queue, conversation_lock, recording_task, streaming_task,
    \* the event loop and the audio device
    hpc,            \* position of the handle_commands task
    rec,            \* rec[t]: state of record_audio task t
    str,            \* str[t]: state of start_streaming task t
    openStreams,    \* capture streams opened by p.open and not closed
    nread,          \* frames read from the device so far
    \* the audio handler and the transport, at their boundary
    playback_buffer,  \* chunks queued for playback by audio_handler.play_audio
    sent,             \* payloads given to client.send_audio in the current turn
    tc,               \* tc[c]: the handle_tool_call invocation for call id c
    \* history (not program state)
    enq,            \* number of commands put on the queue so far
    taken,          \* number of commands taken from the queue so far
    lastTaken,      \* the last command that passed the readiness test, with
                    \* found: the value of recording it found, and prev: the
                    \* command handled before it
    inProgress,     \* command handlings begun and not finished
    captured,       \* frames read since the capture stream was opened
    turn,           \* "none" | "open" | "closed"
    lastDeq,        \* last 'r'/'enter' whose handling has begun
    lastDone,       \* last 'r'/'enter' whose handling has finished
    lastDelta,      \* what the last transport callback since the last command
                    \* was taken did: "none" (no callback), an audio delta
                    \* "played", "muted" (line 237) or "empty" (line 241), or
                    \* "interrupt" (stop_playback)
    sendFailedAt,   \* 0 when the last send_audio awaited by handle_commands
                    \* returned (or none was awaited); when it raised, the
                    \* number of commands enqueued until then
    \* shutdown (cleanup, the finally clause of start)
    cleanup_pc,     \* position of cleanup: "none" (not called), "await_close",
                    \* "await_rec", "await_send", "await_str" (inside its call of
                    \* stop_recording), "done", or "raised" (client.close raised)
    cleanup_await,  \* the task cleanup is suspended on inside stop_recording
    \* the tool registry
    tools,          \* ToolRegistry.tools: the registered tools, in order
    executed,       \* the last call of execute_tool made on its own: its
                    \* arguments and what it returned or raised
    \* startup (SmartSpeaker.start)
    start_pc,       \* position of start: "connect" (awaiting client.connect),
                    \* "wait" (line 226), "failed" (connect raised, line 229),
                    \* "cancelled" (cancelled at an await), both inside the
                    \* finally clause, "returned", or "raised"
    effects,        \* what the handling of the last command taken did to the
                    \* capture and playback devices, in the order of the code
    \* RealtimeClient (realtime_client.py)
    event_handlers, \* the event types that have a handler registered (on)
    ws_in,          \* the messages the websocket holds for listen, in arrival
                    \* order
    listen_pc,      \* position of listen: "recv" (the async for), "handler"
                    \* (awaiting handle_event), "ended" (ConnectionClosed was
                    \* caught) or "raised" (an exception left listen)
    listen_cur,     \* the message listen is awaiting the handler of, or None
    handlers_running, \* the messages whose handler has been invoked and has
                    \* not returned yet
    passed,         \* the messages passed to handle_event so far, in order
    invoked,        \* the messages a handler was invoked for so far, in order
    n_msgs,         \* the number of messages that arrived so far
    \* dispatcher (dispatcher.py)
    d_queue,        \* its external_queue
    d_targets,      \* the content of each queue of target_queues
    d_maxsize,      \* the maxsize the target queues were made with (0: none)
    d_pc,           \* "get" (awaiting external_queue.get) or "put" (inside the
                    \* for loop, at or before an await q.put)
    d_cmd,          \* the command taken last
    d_i,            \* the position in target_queues of the next put
    d_taken,        \* the commands taken from external_queue so far, in order
    d_got,          \* for each target queue, the commands put on it so far
    d_n,            \* the number of commands put on external_queue so far
    d_unfinished,   \* external_queue's count of unfinished tasks
    \* WeatherTool (tools/weather.py)
    w_call,         \* the last call made and what the network answered
    w_requests,     \* the HTTP requests that call made, in order
    w_out,          \* what that call returned or raised
    \* AudioHandler (audio_handler.py)
    ah_recording,   \* self.recording
    ah_stream,      \* self.stream: a stream id, or None
    ah_open,        \* the streams p.open returned that are not closed
    ah_frames,      \* self.frames: each frame is <<stream, number of the read>>
    ah_tasks,       \* for each record task: "none", "new" (created, not run
                    \* yet), "sleep" (at its sleep(0)), "done" or "raised"
    ah_opened,      \* the number of streams opened so far
    ah_reads,       \* the number of reads made so far
    ah_closed_reads, \* the number of reads made on a closed stream so far
    \* AudioIOHandler (audio.py)
    io_recording,   \* self.recording
    io_stream,      \* self.stream: a stream id, or None
    io_open,        \* the streams p.open returned that are not closed
    io_frames,      \* self.frames: each frame is <<stream, number of the read>>
    io_opened,      \* the number of streams opened so far
    io_reads,       \* the number of reads made so far
    io_cleaned,     \* cleanup has been called
    \* SpeechHandler (speech.py)
    sp_pc,          \* initialize_realtime: "none" (no SpeechHandler), "connect"
                    \* (awaiting connect), "done" or "raised"
    sp_early        \* the number of messages that had arrived when connect
                    \* returned

speakerVars == <<stream, frames, recording, mic_muted, speaker_muted, ready,
                 external_queue, conversation_lock, recording_task, streaming_task>>
loopVars == <<hpc, rec, str, openStreams, nread>>
boundaryVars == <<playback_buffer, sent, tc>>
historyVars == <<enq, taken, lastTaken, inProgress, captured, turn, lastDeq,
                 lastDone, lastDelta>>
faultVars == <<sendFailedAt>>
shutdownVars == <<cleanup_pc, cleanup_await>>
registryVars == <<tools, executed>>
startVars == <<start_pc>>
orderVars == <<effects>>
clientVars == <<event_handlers, ws_in, listen_pc, listen_cur, handlers_running,
                passed, invoked, n_msgs>>
dispatcherVars == <<d_queue, d_targets, d_maxsize, d_pc, d_cmd, d_i, d_taken, d_got, d_n,
                    d_unfinished>>
weatherVars == <<w_call, w_requests, w_out>>
audioHandlerVars == <<ah_recording, ah_stream, ah_open, ah_frames, ah_tasks,
                      ah_opened, ah_reads, ah_closed_reads>>
audioIOVars == <<io_recording, io_stream, io_open, io_frames, io_opened, io_reads,
                 io_cleaned>>
speechVars == <<sp_pc, sp_early>>
\* the handler classes main.py does not use
handlersVars == <<audioHandlerVars, audioIOVars, speechVars>>
\* the components that share no state with the session
apartVars == <<clientVars, dispatcherVars, weatherVars, handlersVars>>
vars == <<speakerVars, loopVars, boundaryVars, historyVars, faultVars,
          shutdownVars, registryVars, startVars, orderVars, apartVars>>

\* ------------------------------------------------------------ helpers
Min(S) == CHOOSE x \in S : \A y \in S : x <= y

\* task states: "none" no such task; "new" created, not yet run; "susp"
\* suspended at its await; "new_c"/"susp_c" the same with a cancellation
\* requested; "done" returned; "cancelled" ended by CancelledError.
Alive == {"new", "susp", "new_c", "susp_c"}
Finished == {"done", "cancelled"}

\* asyncio.create_task: the new task takes the first identity no live task has
\* and no coroutine is still waiting on
FreshTask(tasks) == Min({t \in TaskIds : tasks[t] \notin Alive /\ t # cleanup_await})

\* Task.cancel(): requests cancellation of a live task, no effect on a finished one
TaskCancel(tasks, t) ==
    IF t = None THEN tasks
    ELSE [tasks EXCEPT ![t] = CASE tasks[t] = "new" -> "new_c"
                                [] tasks[t] = "susp" -> "susp_c"
                                [] OTHER -> tasks[t]]

\* p.open: the new stream takes the first identity no open stream has
FreshStream == Min(StreamIds \ openStreams)

\* the k-th frame the device delivers: ChunkLen samples, all distinct
Frame(k) == [i \in 1..ChunkLen |-> (k - 1) * ChunkLen + i]

\* b''.join(frames)
RECURSIVE Join(_)
Join(fs) == IF fs = <<>> THEN <<>> ELSE Head(fs) \o Join(Tail(fs))

\* _encode_wav: a WAV header (its length field) followed by the joined frames
encode_wav(fs) == [format |-> "wav", datalen |-> Len(Join(fs)), data |-> Join(fs)]

\* audio_handler.stop_playback_immediately(): the playback buffer is emptied
stop_playback_immediately == playback_buffer' = 0

\* the fields after SmartSpeaker.__init__, the registry aside, and the event
\* loop before any task has run
InitFields ==
    /\ stream = None /\ frames = <<>> /\ recording = FALSE
    /\ mic_muted = TRUE /\ speaker_muted = FALSE /\ ready = FALSE
    /\ external_queue = <<>> /\ conversation_lock = FALSE
    /\ recording_task = None /\ streaming_task = None
    /\ rec = [t \in TaskIds |-> "none"]
    /\ str = [t \in TaskIds |-> "none"]
    /\ openStreams = {} /\ nread = 0
    /\ playback_buffer = 0 /\ sent = <<>>
    /\ tc = [c \in CallIds |-> [pc |-> "idle", name |-> "", raises |-> FALSE,
                                 results |-> <<>>, exc |-> "none", during |-> 0]]
    /\ enq = 0 /\ taken = 0 /\ inProgress = 0
    /\ lastTaken = [cmd |-> "none", seq |-> 0, early |-> FALSE, found |-> FALSE,
                    prev |-> "none"]
    /\ captured = <<>> /\ turn = "none"
    /\ lastDeq = "none" /\ lastDone = "none" /\ lastDelta = "none"
    /\ sendFailedAt = 0
    /\ cleanup_pc = "none" /\ cleanup_await = None
    /\ effects = <<>>

\* the session once start has connected and created the handle_commands task
\* (lines 216-226)
InitSession ==
    /\ InitFields
    /\ hpc = "sleep"
    /\ start_pc = "wait"

\* a RealtimeClient after __init__ and connect: no handler registered, no
\* message received
ClientIdle ==
    /\ event_handlers = {} /\ ws_in = <<>>
    /\ listen_pc = "recv" /\ listen_cur = None /\ handlers_running = {}
    /\ passed = <<>> /\ invoked = <<>> /\ n_msgs = 0

NoCommand == [cmd |-> "none", seq |-> 0]

\* a dispatcher that was given no target queue and no command
DispatcherIdle ==
    /\ d_queue = <<>> /\ d_targets = <<>> /\ d_maxsize = 0
    /\ d_pc = "get" /\ d_cmd = NoCommand /\ d_i = 0
    /\ d_taken = <<>> /\ d_got = <<>> /\ d_n = 0 /\ d_unfinished = 0

NoWeatherCall == [op |-> "none", forecast_type |-> "", location |-> "", unit |-> "",
                  geo |-> "", net |-> ""]

\* what a method of WeatherTool hands back: a dict or a tuple (kind, the
\* place or the message it is about, the units), or the exception it raised
WeatherValue(kind, at, units) == [kind |-> kind, at |-> at, units |-> units]

NoWeatherOut == [exc |-> "none", raised |-> FALSE, value |-> WeatherValue("none", "", "")]

\* a WeatherTool no method of which was called
WeatherIdle ==
    /\ w_call = NoWeatherCall /\ w_requests = <<>> /\ w_out = NoWeatherOut

\* an AudioHandler after __init__ (lines 18-28)
AudioHandlerIdle ==
    /\ ah_recording = FALSE /\ ah_stream = None /\ ah_open = {}
    /\ ah_frames = <<>> /\ ah_tasks = [t \in AhTaskIds |-> "none"]
    /\ ah_opened = 0 /\ ah_reads = 0 /\ ah_closed_reads = 0

\* an AudioIOHandler after __init__ (lines 15-20)
AudioIOIdle ==
    /\ io_recording = FALSE /\ io_stream = None /\ io_open = {}
    /\ io_frames = <<>> /\ io_opened = 0 /\ io_reads = 0 /\ io_cleaned = FALSE

\* no SpeechHandler was made
SpeechIdle == sp_pc = "none" /\ sp_early = 0

HandlersIdle == AudioHandlerIdle /\ AudioIOIdle /\ SpeechIdle

ApartIdle == ClientIdle /\ DispatcherIdle /\ WeatherIdle /\ HandlersIdle

\* self.tools after _discover_and_register_tools: the tools directory holds
\* one tool, weather.py
Registry == <<[name |-> "get_weather", out |-> "weather"]>>

NoCall == [name |-> "", raises |-> FALSE,
           out |-> [raised |-> FALSE, value |-> [key |-> "", value |-> ""]]]

Init ==
    /\ InitSession
    /\ tools = Registry
    /\ executed = NoCall
    /\ ApartIdle

\* ------------------------------------------------------------ the command queue
\* the producer side of external_queue (the hardware controller): one more
\* command at the tail; seq and early record when it arrived
Enqueue(cmd) ==
    /\ enq < MaxCmds
    /\ external_queue' = Append(external_queue,
                                [cmd |-> cmd, seq |-> enq + 1, early |-> ~ready])
    /\ enq' = enq + 1
    /\ UNCHANGED <<stream, frames, recording, mic_muted, speaker_muted, ready,
                   conversation_lock, recording_task, streaming_task>>
    /\ UNCHANGED <<loopVars, boundaryVars>>
    /\ UNCHANGED <<taken, lastTaken, inProgress, captured, turn, lastDeq, lastDone,
                   lastDelta>>
    /\ UNCHANGED shutdownVars
    /\ UNCHANGED registryVars
    /\ UNCHANGED faultVars
    /\ UNCHANGED <<startVars, orderVars, apartVars>>

\* asyncio.Queue.get returns the oldest item
\* (variant: a queue that returns the newest item)
GetIndex_lifo(q) == Len(q)
GetIndex(q) == 1

QueueRest(q) == [i \in 1..(Len(q) - 1) |-> IF i < GetIndex(q) THEN q[i] ELSE q[i + 1]]

\* what the record of a taken command holds
Taken(item) ==
    [cmd |-> item.cmd, seq |-> item.seq, early |-> item.early,
     found |-> recording, prev |-> lastTaken.cmd]

\* a command is taken only by the one handle_commands task standing at its
\* queue.get, which it reaches only after the handling of the command before
\* has returned; the handling itself runs inside conversation_lock
\* (variant: each command handled by a task of its own, outside the lock)
CanGet_anywhere == hpc \in {"get", "await_rec", "await_send", "await_str"}
CanGet == hpc = "get" /\ ~conversation_lock

\* `command = await self.external_queue.get()`, the readiness test passed
\* (`if not self.ready: continue` not taken) and the lock entered
Take(cmd) ==
    /\ CanGet
    /\ external_queue # <<>>
    /\ ready
    /\ external_queue[GetIndex(external_queue)].cmd = cmd
    /\ external_queue' = QueueRest(external_queue)
    /\ taken' = taken + 1
    /\ lastTaken' = Taken(external_queue[GetIndex(external_queue)])
    /\ lastDelta' = "none"
    /\ lastDeq' = IF cmd \in {"r", "enter"} THEN cmd ELSE lastDeq

\* ------------------------------------------------------------ 'r'
\* start_recording; ok: whether p.open succeeds. It has no await: one step.
\* (variant: without the early return of lines 84-86)
start_recording_noguard(ok) ==
    IF ~ok
    THEN UNCHANGED <<stream, openStreams, recording, frames, rec, recording_task,
                     str, streaming_task, captured, turn, sent>>
    ELSE /\ stream' = FreshStream
         /\ openStreams' = openStreams \cup {FreshStream}
         /\ recording' = TRUE
         /\ frames' = <<>>
         /\ rec' = [rec EXCEPT ![FreshTask(rec)] = "new"]
         /\ recording_task' = FreshTask(rec)
         /\ str' = [str EXCEPT ![FreshTask(str)] = "new"]
         /\ streaming_task' = FreshTask(str)
         /\ captured' = <<>> /\ turn' = "open" /\ sent' = <<>>

\* (variant: without `self.frames = []` at line 97)
start_recording_keeps_frames(ok) ==
    IF recording \/ ~ok
    THEN UNCHANGED <<stream, openStreams, recording, frames, rec, recording_task,
                     str, streaming_task, captured, turn, sent>>
    ELSE /\ stream' = FreshStream
         /\ openStreams' = openStreams \cup {FreshStream}
         /\ recording' = TRUE
         /\ frames' = frames
         /\ rec' = [rec EXCEPT ![FreshTask(rec)] = "new"]
         /\ recording_task' = FreshTask(rec)
         /\ str' = [str EXCEPT ![FreshTask(str)] = "new"]
         /\ streaming_task' = FreshTask(str)
         /\ captured' = <<>> /\ turn' = "open" /\ sent' = <<>>

\* (variant: `self.frames = []` ahead of the early return)
start_recording_clears_frames(ok) ==
    IF recording \/ ~ok
    THEN /\ frames' = <<>>
         /\ UNCHANGED <<stream, openStreams, recording, rec, recording_task,
                        str, streaming_task, captured, turn, sent>>
    ELSE /\ stream' = FreshStream
         /\ openStreams' = openStreams \cup {FreshStream}
         /\ recording' = TRUE
         /\ frames' = <<>>
         /\ rec' = [rec EXCEPT ![FreshTask(rec)] = "new"]
         /\ recording_task' = FreshTask(rec)
         /\ str' = [str EXCEPT ![FreshTask(str)] = "new"]
         /\ streaming_task' = FreshTask(str)
         /\ captured' = <<>> /\ turn' = "open" /\ sent' = <<>>

start_recording(ok) ==
    IF recording \/ ~ok
    THEN UNCHANGED <<stream, openStreams, recording, frames, rec, recording_task,
                     str, streaming_task, captured, turn, sent>>
    ELSE /\ stream' = FreshStream
         /\ openStreams' = openStreams \cup {FreshStream}
         /\ recording' = TRUE
         /\ frames' = <<>>
         /\ rec' = [rec EXCEPT ![FreshTask(rec)] = "new"]
         /\ recording_task' = FreshTask(rec)
         /\ str' = [str EXCEPT ![FreshTask(str)] = "new"]
         /\ streaming_task' = FreshTask(str)
         /\ captured' = <<>> /\ turn' = "open" /\ sent' = <<>>

\* (variant: without `self.speaker_muted = True` at line 159)
unmute_keeps_speaker(ok) ==
    /\ speaker_muted' = speaker_muted
    /\ mic_muted' = FALSE
    /\ start_recording(ok)
    /\ stop_playback_immediately

unmute_mic_and_stop_playback(ok) ==
    /\ speaker_muted' = TRUE
    /\ mic_muted' = FALSE
    /\ start_recording(ok)
    /\ stop_playback_immediately

\* the device operations of start_recording in the order of its statements:
\* p.open (line 88), stop_playback_immediately (line 100), the two
\* create_task (lines 102-106); none after the early return, and none after
\* p.open raised
start_recording_order(ok) ==
    IF recording THEN <<>>
    ELSE IF ok THEN <<"open_stream", "stop_playback", "create_tasks">>
    ELSE <<"open_failed">>

\* those of unmute_mic_and_stop_playback: line 159, start_recording, line 162
unmute_mic_and_stop_playback_order(ok) ==
    <<"mute_speaker">> \o start_recording_order(ok) \o <<"stop_playback">>

HandleR ==
    \E ok \in BOOLEAN :
        /\ Take("r")
        /\ effects' = unmute_mic_and_stop_playback_order(ok)
        /\ unmute_mic_and_stop_playback(ok)
        /\ lastDone' = "r"
        /\ UNCHANGED <<ready, conversation_lock, hpc, nread, tc, enq, inProgress>>
        /\ UNCHANGED shutdownVars
        /\ UNCHANGED registryVars
        /\ UNCHANGED faultVars
        /\ UNCHANGED <<startVars, apartVars>>

\* a command that is only logged: one taken while not ready (dropped by the
\* `continue`), or one that is neither 'r' nor 'enter'
HandleIgnored ==
    /\ CanGet
    /\ external_queue # <<>>
    /\ \/ ~ready
       \/ external_queue[GetIndex(external_queue)].cmd \notin {"r", "enter"}
    /\ external_queue' = QueueRest(external_queue)
    /\ taken' = taken + 1
    /\ lastTaken' = IF ready THEN Taken(external_queue[GetIndex(external_queue)])
                    ELSE lastTaken
    /\ lastDelta' = "none"
    /\ UNCHANGED <<stream, frames, recording, mic_muted, speaker_muted, ready,
                   conversation_lock, recording_task, streaming_task>>
    /\ UNCHANGED <<loopVars, boundaryVars>>
    /\ UNCHANGED <<enq, inProgress, captured, turn, lastDeq, lastDone>>
    /\ UNCHANGED shutdownVars
    /\ UNCHANGED registryVars
    /\ UNCHANGED faultVars
    /\ effects' = <<>>
    /\ UNCHANGED <<startVars, apartVars>>

\* the first two statements of handle_commands: the sleep ends, ready is set
BecomeReady ==
    /\ hpc = "sleep"
    /\ ready' = TRUE
    /\ hpc' = "get"
    /\ UNCHANGED <<stream, frames, recording, mic_muted, speaker_muted,
                   external_queue, conversation_lock, recording_task, streaming_task>>
    /\ UNCHANGED <<rec, str, openStreams, nread>>
    /\ UNCHANGED <<boundaryVars, historyVars>>
    /\ UNCHANGED shutdownVars
    /\ UNCHANGED registryVars
    /\ UNCHANGED faultVars
    /\ UNCHANGED <<startVars, orderVars, apartVars>>

\* ------------------------------------------------------------ 'enter'
\* stop_recording returns to handle_commands, which leaves the lock and goes
\* back to queue.get; closed: stop_recording had found recording true
Return(closed) ==
    /\ hpc' = "get"
    /\ conversation_lock' = FALSE
    /\ lastDone' = "enter"
    /\ turn' = IF closed THEN "closed" ELSE turn

\* stop_recording suspends at an await, the lock held
Suspend(at) ==
    /\ hpc' = at
    /\ conversation_lock' = TRUE
    /\ UNCHANGED <<lastDone, turn>>

\* the finally clause of stop_recording (lines 138-142)
\* (variant: without the finally clause)
stop_finally_keeps_stream ==
    UNCHANGED <<openStreams, stream>>

stop_finally ==
    /\ openStreams' = openStreams \ {stream}
    /\ stream' = None

\* stop_recording from the return of `await self.streaming_task` (line 131);
\* cancelled: the await raised CancelledError, which skips line 133
stop_after_streaming(cancelled) ==
    /\ frames' = IF cancelled THEN frames ELSE <<>>
    /\ stop_finally
    /\ Return(TRUE)

\* stop_recording from the return of `await self.client.send_audio` (line 126);
\* ok: send_audio returned, otherwise it raised
\* (variant: without the `except Exception` clause of line 136: the exception
\* of send_audio runs the finally clause and leaves handle_commands)
stop_after_send_uncaught(ok) ==
    IF ~ok
    THEN /\ UNCHANGED <<playback_buffer, str, frames, lastDone, turn>>
         /\ stop_finally
         /\ hpc' = "crashed"
         /\ conversation_lock' = FALSE
    ELSE /\ stop_playback_immediately
         /\ str' = TaskCancel(str, streaming_task)
         /\ IF str[streaming_task] \in Finished
            THEN stop_after_streaming(str[streaming_task] = "cancelled")
            ELSE /\ Suspend("await_str")
                 /\ UNCHANGED <<frames, stream, openStreams>>

stop_after_send(ok) ==
    IF ~ok
    THEN /\ UNCHANGED <<playback_buffer, str, frames>>
         /\ stop_finally
         /\ Return(TRUE)
    ELSE /\ stop_playback_immediately
         /\ str' = TaskCancel(str, streaming_task)
         /\ IF str[streaming_task] \in Finished
            THEN stop_after_streaming(str[streaming_task] = "cancelled")
            ELSE /\ Suspend("await_str")
                 /\ UNCHANGED <<frames, stream, openStreams>>

\* stop_recording from the return of `await self.recording_task` (line 119);
\* cancelled: the await raised CancelledError
\* (variant: without `if not self.frames: return` at lines 121-123)
stop_after_rec_sends_empty(cancelled) ==
    IF cancelled
    THEN /\ UNCHANGED <<sent, playback_buffer, str, frames>>
         /\ stop_finally
         /\ Return(TRUE)
    ELSE /\ sent' = Append(sent, encode_wav(frames))
         /\ Suspend("await_send")
         /\ UNCHANGED <<playback_buffer, str, frames, stream, openStreams>>

stop_after_rec(cancelled) ==
    IF cancelled \/ frames = <<>>
    THEN /\ UNCHANGED <<sent, playback_buffer, str, frames>>
         /\ stop_finally
         /\ Return(TRUE)
    ELSE /\ sent' = Append(sent, encode_wav(frames))
         /\ Suspend("await_send")
         /\ UNCHANGED <<playback_buffer, str, frames, stream, openStreams>>

\* stop_recording from its call to its first await (lines 110-119)
\* (variant: without `await self.recording_task` at line 119)
stop_recording_noawait ==
    IF ~recording
    THEN /\ Return(FALSE)
         /\ UNCHANGED <<recording, rec, sent, playback_buffer, str, frames,
                        stream, openStreams>>
    ELSE /\ recording' = FALSE
         /\ rec' = TaskCancel(rec, recording_task)
         /\ stop_after_rec(FALSE)

stop_recording ==
    IF ~recording
    THEN /\ Return(FALSE)
         /\ UNCHANGED <<recording, rec, sent, playback_buffer, str, frames,
                        stream, openStreams>>
    ELSE /\ recording' = FALSE
         /\ rec' = TaskCancel(rec, recording_task)
         /\ IF recording_task # None /\ rec[recording_task] \in Finished
            THEN stop_after_rec(rec[recording_task] = "cancelled")
            ELSE /\ Suspend("await_rec")
                 /\ UNCHANGED <<sent, playback_buffer, str, frames, stream,
                                openStreams>>

mute_mic_and_manage_output ==
    /\ speaker_muted' = FALSE
    /\ mic_muted' = TRUE
    /\ stop_recording

HandleEnter ==
    /\ Take("enter")
    /\ mute_mic_and_manage_output
    /\ inProgress' = IF hpc' = "get" THEN inProgress ELSE inProgress + 1
    /\ UNCHANGED <<ready, recording_task, streaming_task, nread, tc, enq,
                   captured>>
    /\ UNCHANGED shutdownVars
    /\ UNCHANGED registryVars
    /\ UNCHANGED faultVars
    /\ effects' = <<>>
    /\ UNCHANGED <<startVars, apartVars>>

ResumeAfterRec ==
    /\ hpc = "await_rec"
    /\ rec[recording_task] \in Finished
    /\ stop_after_rec(rec[recording_task] = "cancelled")
    /\ inProgress' = IF hpc' = "get" THEN inProgress - 1 ELSE inProgress
    /\ UNCHANGED <<recording, mic_muted, speaker_muted, ready, external_queue,
                   recording_task, streaming_task, rec, nread, tc, enq, taken,
                   lastTaken, captured, lastDeq, lastDelta>>
    /\ UNCHANGED shutdownVars
    /\ UNCHANGED registryVars
    /\ UNCHANGED faultVars
    /\ UNCHANGED <<startVars, orderVars, apartVars>>

ResumeAfterSend ==
    \E ok \in BOOLEAN :
        /\ hpc = "await_send"
        /\ stop_after_send(ok)
        /\ sendFailedAt' = IF ok THEN 0 ELSE enq
        /\ inProgress' = IF hpc' = "get" THEN inProgress - 1 ELSE inProgress
        /\ UNCHANGED <<recording, mic_muted, speaker_muted, ready, external_queue,
                       recording_task, streaming_task, rec, nread, sent, tc, enq,
                       taken, lastTaken, captured, lastDeq, lastDelta>>
        /\ UNCHANGED shutdownVars
        /\ UNCHANGED registryVars
        /\ UNCHANGED <<startVars, orderVars, apartVars>>

ResumeAfterStreaming ==
    /\ hpc = "await_str"
    /\ str[streaming_task] \in Finished
    /\ stop_after_streaming(str[streaming_task] = "cancelled")
    /\ inProgress' = inProgress - 1
    /\ UNCHANGED <<recording, mic_muted, speaker_muted, ready, external_queue,
                   recording_task, streaming_task, rec, str, nread,
                   playback_buffer, sent, tc, enq, taken, lastTaken, captured,
                   lastDeq, lastDelta>>
    /\ UNCHANGED shutdownVars
    /\ UNCHANGED registryVars
    /\ UNCHANGED faultVars
    /\ UNCHANGED <<startVars, orderVars, apartVars>>

\* ------------------------------------------------------------ record_audio
\* one iteration of the loop of record_audio, from the task's start or from its
\* sleep(0) to the next sleep(0) or the end; readOk: stream.read returns a frame
record_audio(t, readOk) ==
    /\ rec[t] \in {"new", "susp"}
    /\ readOk => nread < MaxReads
    /\ IF recording /\ readOk /\ stream \in openStreams
       THEN /\ frames' = Append(frames, Frame(nread + 1))
            /\ captured' = Append(captured, Frame(nread + 1))
            /\ nread' = nread + 1
            /\ rec' = [rec EXCEPT ![t] = "susp"]
       ELSE \* the loop test fails, or the read raised and was logged
            /\ rec' = [rec EXCEPT ![t] = "done"]
            /\ UNCHANGED <<frames, captured, nread>>

RecordStep(t) ==
    \E readOk \in BOOLEAN :
        /\ record_audio(t, readOk)
        /\ UNCHANGED <<stream, recording, mic_muted, speaker_muted, ready,
                       external_queue, conversation_lock, recording_task,
                       streaming_task>>
        /\ UNCHANGED <<hpc, str, openStreams>>
        /\ UNCHANGED boundaryVars
        /\ UNCHANGED <<enq, taken, lastTaken, inProgress, turn, lastDeq, lastDone,
                       lastDelta>>
        /\ UNCHANGED shutdownVars
        /\ UNCHANGED registryVars
        /\ UNCHANGED faultVars
        /\ UNCHANGED <<startVars, orderVars, apartVars>>

\* the cancellation reaches the task: before its first step the coroutine ends
\* with CancelledError; at sleep(0) the handler at line 151 logs it and returns
RecordCancelled(t) ==
    /\ rec[t] \in {"new_c", "susp_c"}
    /\ rec' = [rec EXCEPT ![t] = IF rec[t] = "new_c" THEN "cancelled" ELSE "done"]
    /\ UNCHANGED speakerVars
    /\ UNCHANGED <<hpc, str, openStreams, nread>>
    /\ UNCHANGED <<boundaryVars, historyVars>>
    /\ UNCHANGED shutdownVars
    /\ UNCHANGED registryVars
    /\ UNCHANGED faultVars
    /\ UNCHANGED <<startVars, orderVars, apartVars>>

\* ------------------------------------------------------------ start_streaming
\* audio_handler.start_streaming(client) is the audio handler's: the task
\* starts and keeps streaming, or returns by itself
StreamingStep(t) ==
    \E next \in {"susp", "done"} :
        /\ str[t] \in {"new", "susp"}
        /\ str[t] # next
        /\ str' = [str EXCEPT ![t] = next]
        /\ UNCHANGED speakerVars
        /\ UNCHANGED <<hpc, rec, openStreams, nread>>
        /\ UNCHANGED <<boundaryVars, historyVars>>
        /\ UNCHANGED shutdownVars
        /\ UNCHANGED registryVars
        /\ UNCHANGED faultVars
        /\ UNCHANGED <<startVars, orderVars, apartVars>>

\* the cancellation reaches the task: it ends with CancelledError, or (once
\* started) the audio handler's own exception handling ends it normally
StreamingCancelled(t) ==
    \E next \in {"cancelled", "done"} :
        /\ str[t] \in {"new_c", "susp_c"}
        /\ str[t] = "new_c" => next = "cancelled"
        /\ str' = [str EXCEPT ![t] = next]
        /\ UNCHANGED speakerVars
        /\ UNCHANGED <<hpc, rec, openStreams, nread>>
        /\ UNCHANGED <<boundaryVars, historyVars>>
        /\ UNCHANGED shutdownVars
        /\ UNCHANGED registryVars
        /\ UNCHANGED faultVars
        /\ UNCHANGED <<startVars, orderVars, apartVars>>

\* ------------------------------------------------------------ transport callbacks
\* play_audio(audio_data); hasData: audio_data is not empty. A delta that is
\* played is given to audio_handler.play_audio, which queues it for playback
\* (variant: without the speaker_muted test of lines 235-237)
play_audio_unmuted(hasData) ==
    IF ~hasData
    THEN UNCHANGED playback_buffer /\ lastDelta' = "empty"
    ELSE playback_buffer' = playback_buffer + 1 /\ lastDelta' = "played"

play_audio(hasData) ==
    IF speaker_muted
    THEN UNCHANGED playback_buffer /\ lastDelta' = "muted"
    ELSE IF ~hasData
    THEN UNCHANGED playback_buffer /\ lastDelta' = "empty"
    ELSE playback_buffer' = playback_buffer + 1 /\ lastDelta' = "played"

\* the transport delivers an audio delta: on_audio_delta = play_audio
AudioDelta ==
    \E hasData \in BOOLEAN :
        /\ playback_buffer < MaxBuffer
        /\ play_audio(hasData)
        /\ UNCHANGED <<speakerVars, loopVars>>
        /\ UNCHANGED <<sent, tc>>
        /\ UNCHANGED <<enq, taken, lastTaken, inProgress, captured, turn, lastDeq,
                       lastDone>>
        /\ UNCHANGED shutdownVars
        /\ UNCHANGED registryVars
        /\ UNCHANGED faultVars
        /\ UNCHANGED <<startVars, orderVars, apartVars>>

\* stop_playback, the on_interrupt callback
\* (variant: the interrupt logged, the playback left running)
stop_playback_logs == UNCHANGED playback_buffer
stop_playback == stop_playback_immediately

\* the transport signals an interrupt
Interrupt ==
    /\ stop_playback
    /\ lastDelta' = "interrupt"
    /\ UNCHANGED <<speakerVars, loopVars>>
    /\ UNCHANGED <<enq, taken, lastTaken, inProgress, captured, turn, lastDeq,
                   lastDone>>
    /\ UNCHANGED <<sent, tc>>
    /\ UNCHANGED shutdownVars
    /\ UNCHANGED registryVars
    /\ UNCHANGED faultVars
    /\ UNCHANGED <<startVars, orderVars, apartVars>>

\* the audio handler's player writes one queued chunk to the speaker
PlaybackWrite ==
    /\ playback_buffer > 0
    /\ playback_buffer' = playback_buffer - 1
    /\ UNCHANGED <<speakerVars, loopVars, historyVars>>
    /\ UNCHANGED <<sent, tc>>
    /\ UNCHANGED shutdownVars
    /\ UNCHANGED registryVars
    /\ UNCHANGED faultVars
    /\ UNCHANGED <<startVars, orderVars, apartVars>>

\* ------------------------------------------------------------ tool calls
\* the names a tool call can carry: a registered one, one more, and one that
\* no tool has
ToolNames == {"get_weather", "get_time", "frobnicate"}

\* ToolRegistry.execute_tool(name) on the tool list reg; raises: the execute of
\* the tool found raises. The outcome is the value returned, or (raised) the
\* ValueError with its message
\* (variant: None returned for a name that no tool has)
execute_tool_none(reg, name, raises) ==
    LET hits == {i \in DOMAIN reg : reg[i].name = name} IN
    IF hits = {}
    THEN [raised |-> FALSE, value |-> [key |-> "result", value |-> "None"]]
    ELSE LET tool == reg[Min(hits)] IN
         [raised |-> FALSE,
          value |-> IF raises THEN [key |-> "error", value |-> "failed: " \o tool.out]
                    ELSE [key |-> "result", value |-> tool.out]]

\* (variant: the exception of the tool's execute logged, nothing returned)
execute_tool_drops_error(reg, name, raises) ==
    LET hits == {i \in DOMAIN reg : reg[i].name = name} IN
    IF hits = {}
    THEN [raised |-> TRUE,
          value |-> [key |-> "ValueError", value |-> "Tool '" \o name \o "' not found"]]
    ELSE LET tool == reg[Min(hits)] IN
         [raised |-> FALSE,
          value |-> IF raises THEN [key |-> "result", value |-> "None"]
                    ELSE [key |-> "result", value |-> tool.out]]

\* (variant: the last tool of that name, as a name-keyed dict would keep)
execute_tool_last(reg, name, raises) ==
    LET hits == {i \in DOMAIN reg : reg[i].name = name} IN
    IF hits = {}
    THEN [raised |-> TRUE,
          value |-> [key |-> "ValueError", value |-> "Tool '" \o name \o "' not found"]]
    ELSE LET tool == reg[CHOOSE i \in hits : \A j \in hits : j <= i] IN
         [raised |-> FALSE,
          value |-> IF raises THEN [key |-> "error", value |-> "failed: " \o tool.out]
                    ELSE [key |-> "result", value |-> tool.out]]

execute_tool(reg, name, raises) ==
    LET hits == {i \in DOMAIN reg : reg[i].name = name} IN
    IF hits = {}
    THEN [raised |-> TRUE,
          value |-> [key |-> "ValueError", value |-> "Tool '" \o name \o "' not found"]]
    ELSE LET tool == reg[Min(hits)] IN
         [raised |-> FALSE,
          value |-> IF raises THEN [key |-> "error", value |-> "failed: " \o tool.out]
                    ELSE [key |-> "result", value |-> tool.out]]

\* one call of client.send_tool_result(tool_call.id, payload)
ToolResult(c, payload) == [id |-> c, payload |-> payload]

\* handle_tool_call from its call to its first await: the tool is executed and
\* send_tool_result is called, with the result (line 268) or, when
\* execute_tool raised, with {"error": str(e)} (lines 275-277)
handle_tool_call(c, name, raises) ==
    LET r == execute_tool(tools, name, raises) IN
    /\ tc[c].pc = "idle"
    /\ tc' = [tc EXCEPT ![c] =
                [pc |-> IF r.raised THEN "send_error" ELSE "send_result",
                 name |-> name,
                 raises |-> raises,
                 results |-> <<ToolResult(c, IF r.raised
                                             THEN [key |-> "error", value |-> r.value.value]
                                             ELSE r.value)>>,
                 exc |-> "none",
                 \* history: the command whose handler held conversation_lock
                 \* when the call was executed (0: the lock was free)
                 during |-> IF conversation_lock THEN taken ELSE 0]]

\* the awaited send_tool_result returns (ok) or raises: a raise at line 268 is
\* caught at line 271 and {"error": str(e)} is sent at line 277; a raise at
\* line 277 leaves handle_tool_call
tool_send_returns(c, ok) ==
    /\ tc[c].pc \in {"send_result", "send_error"}
    /\ tc' = [tc EXCEPT ![c] =
                IF ok THEN [@ EXCEPT !.pc = "done"]
                ELSE IF @.pc = "send_result"
                THEN [@ EXCEPT !.pc = "send_error",
                               !.results = Append(@, ToolResult(c,
                                   [key |-> "error", value |-> "send failed"]))]
                ELSE [@ EXCEPT !.pc = "raised", !.exc = "send failed"]]

\* the transport delivers a tool call: handle_tool_call runs to its first await
\* (variant: handle_tool_call inside `async with self.conversation_lock`)
ToolCall_locked(c) ==
    \E name \in ToolNames, raises \in BOOLEAN :
        /\ ~conversation_lock
        /\ handle_tool_call(c, name, raises)
        /\ UNCHANGED <<speakerVars, loopVars, historyVars>>
        /\ UNCHANGED <<playback_buffer, sent>>
        /\ UNCHANGED shutdownVars
        /\ UNCHANGED registryVars
        /\ UNCHANGED faultVars
        /\ UNCHANGED <<startVars, orderVars, apartVars>>

ToolCall(c) ==
    \E name \in ToolNames, raises \in BOOLEAN :
        /\ handle_tool_call(c, name, raises)
        /\ UNCHANGED <<speakerVars, loopVars, historyVars>>
        /\ UNCHANGED <<playback_buffer, sent>>
        /\ UNCHANGED shutdownVars
        /\ UNCHANGED registryVars
        /\ UNCHANGED faultVars
        /\ UNCHANGED <<startVars, orderVars, apartVars>>

ToolSendReturns(c) ==
    \E ok \in BOOLEAN :
        /\ tool_send_returns(c, ok)
        /\ UNCHANGED <<speakerVars, loopVars, historyVars>>
        /\ UNCHANGED <<playback_buffer, sent>>
        /\ UNCHANGED shutdownVars
        /\ UNCHANGED registryVars
        /\ UNCHANGED faultVars
        /\ UNCHANGED <<startVars, orderVars, apartVars>>

\* ------------------------------------------------------------ the registry alone
\* the registries execute_tool is applied to: every list of at most MaxTools
\* tools, two of which may carry the same name
RegisteredNames == {"get_weather", "get_time"}
ToolOuts == {"weather", "time"}
Tool == [name : RegisteredNames, out : ToolOuts]
Registries == UNION {[1..k -> Tool] : k \in 0..MaxTools}

InitRegistry ==
    /\ InitSession
    /\ tools \in Registries
    /\ executed = NoCall
    /\ ApartIdle

\* a caller applies execute_tool to the registry
ExecuteTool ==
    \E name \in ToolNames, raises \in BOOLEAN :
        /\ executed' = [name |-> name, raises |-> raises,
                        out |-> execute_tool(tools, name, raises)]
        /\ UNCHANGED <<speakerVars, loopVars, boundaryVars, historyVars,
                       faultVars, shutdownVars, tools>>
        /\ UNCHANGED <<startVars, orderVars, apartVars>>

\* ------------------------------------------------------------ shutdown
\* cleanup is called from the finally clause of start (line 231): when the
\* wait at line 226 is cancelled, or when connect raised. handle_commands and
\* the tasks it started keep running on the event loop during cleanup's awaits.

\* the end of cleanup (lines 288-290): viaStop: the finally clause of
\* stop_recording ran just before; p.terminate() is PyAudio's: released says
\* whether it closes the streams that are still open
cleanup_end(viaStop, released) ==
    /\ stream' = IF viaStop THEN None ELSE stream
    /\ openStreams' = IF released THEN {}
                      ELSE IF viaStop THEN openStreams \ {stream}
                      ELSE openStreams
    /\ cleanup_pc' = "done"
    /\ cleanup_await' = None

\* cleanup suspends at an await of stop_recording, on task t if any
cleanup_suspend(at, t) ==
    /\ cleanup_pc' = at
    /\ cleanup_await' = t
    /\ UNCHANGED <<stream, openStreams>>

\* cleanup's stop_recording from the return of `await self.streaming_task`
cleanup_after_streaming(cancelled, released) ==
    /\ frames' = IF cancelled THEN frames ELSE <<>>
    /\ cleanup_end(TRUE, released)

\* cleanup's stop_recording from the return of `await self.client.send_audio`
cleanup_after_send(ok, released) ==
    IF ~ok
    THEN /\ UNCHANGED <<playback_buffer, str, frames>>
         /\ cleanup_end(TRUE, released)
    ELSE /\ stop_playback_immediately
         /\ str' = TaskCancel(str, streaming_task)
         /\ IF str[streaming_task] \in Finished
            THEN cleanup_after_streaming(str[streaming_task] = "cancelled", released)
            ELSE /\ cleanup_suspend("await_str", streaming_task)
                 /\ UNCHANGED frames

\* cleanup's stop_recording from the return of `await self.recording_task`
cleanup_after_rec(cancelled, released) ==
    IF cancelled \/ frames = <<>>
    THEN /\ UNCHANGED <<sent, playback_buffer, str, frames>>
         /\ cleanup_end(TRUE, released)
    ELSE /\ sent' = Append(sent, encode_wav(frames))
         /\ cleanup_suspend("await_send", None)
         /\ UNCHANGED <<playback_buffer, str, frames>>

\* cleanup from the return of `await self.client.close()` (lines 284-290);
\* ok: close returned, otherwise it raised and the exception leaves cleanup
cleanup_after_close(ok, released) ==
    IF ~ok
    THEN /\ cleanup_pc' = "raised"
         /\ UNCHANGED <<recording, mic_muted, rec, sent, playback_buffer, str,
                        frames, stream, openStreams, cleanup_await>>
    ELSE IF ~recording
    THEN /\ cleanup_end(FALSE, released)
         /\ UNCHANGED <<recording, mic_muted, rec, sent, playback_buffer, str,
                        frames>>
    ELSE /\ recording' = FALSE
         /\ mic_muted' = TRUE
         /\ rec' = TaskCancel(rec, recording_task)
         /\ IF rec[recording_task] \in Finished
            THEN cleanup_after_rec(rec[recording_task] = "cancelled", released)
            ELSE /\ cleanup_suspend("await_rec", recording_task)
                 /\ UNCHANGED <<sent, playback_buffer, str, frames>>

\* cleanup from its call to `await self.client.close()` (lines 279-284)
cleanup ==
    /\ cleanup_pc = "none"
    /\ cleanup_pc' = "await_close"

\* start's await (line 216 or 226) is cancelled: CancelledError is no
\* Exception, so line 228 lets it pass and the finally clause runs cleanup
Cleanup ==
    /\ start_pc \in {"connect", "wait"}
    /\ start_pc' = "cancelled"
    /\ cleanup
    /\ UNCHANGED <<speakerVars, loopVars, boundaryVars, historyVars, cleanup_await>>
    /\ UNCHANGED registryVars
    /\ UNCHANGED faultVars
    /\ UNCHANGED <<orderVars, apartVars>>

CleanupAfterClose ==
    \E ok \in BOOLEAN, released \in BOOLEAN :
        /\ cleanup_pc = "await_close"
        /\ cleanup_after_close(ok, released)
        /\ UNCHANGED <<speaker_muted, ready, external_queue, conversation_lock,
                       recording_task, streaming_task, hpc, nread, tc>>
        /\ UNCHANGED historyVars
        /\ UNCHANGED registryVars
        /\ UNCHANGED faultVars
        /\ UNCHANGED <<startVars, orderVars, apartVars>>

CleanupAfterRec ==
    \E released \in BOOLEAN :
        /\ cleanup_pc = "await_rec"
        /\ rec[cleanup_await] \in Finished
        /\ cleanup_after_rec(rec[cleanup_await] = "cancelled", released)
        /\ UNCHANGED <<recording, mic_muted, speaker_muted, ready, external_queue,
                       conversation_lock, recording_task, streaming_task, hpc,
                       rec, nread, tc>>
        /\ UNCHANGED historyVars
        /\ UNCHANGED registryVars
        /\ UNCHANGED faultVars
        /\ UNCHANGED <<startVars, orderVars, apartVars>>

CleanupAfterSend ==
    \E ok \in BOOLEAN, released \in BOOLEAN :
        /\ cleanup_pc = "await_send"
        /\ cleanup_after_send(ok, released)
        /\ UNCHANGED <<recording, mic_muted, speaker_muted, ready, external_queue,
                       conversation_lock, recording_task, streaming_task, hpc,
                       rec, nread, sent, tc>>
        /\ UNCHANGED historyVars
        /\ UNCHANGED registryVars
        /\ UNCHANGED faultVars
        /\ UNCHANGED <<startVars, orderVars, apartVars>>

CleanupAfterStreaming ==
    \E released \in BOOLEAN :
        /\ cleanup_pc = "await_str"
        /\ str[cleanup_await] \in Finished
        /\ cleanup_after_streaming(str[cleanup_await] = "cancelled", released)
        /\ UNCHANGED <<recording, mic_muted, speaker_muted, ready, external_queue,
                       conversation_lock, recording_task, streaming_task, hpc,
                       rec, str, nread, playback_buffer, sent, tc>>
        /\ UNCHANGED historyVars
        /\ UNCHANGED registryVars
        /\ UNCHANGED faultVars
        /\ UNCHANGED <<startVars, orderVars, apartVars>>

\* ------------------------------------------------------------ startup
\* start from the return of `await self.client.connect()` (lines 216-231);
\* ok: connect returned and the tasks are created, otherwise it raised (as
\* RealtimeClient.connect does after printing), `except Exception` logs the
\* error and the finally clause calls cleanup
start_after_connect(ok) ==
    IF ok
    THEN /\ start_pc' = "wait"
         /\ hpc' = "sleep"
         /\ UNCHANGED cleanup_pc
    ELSE /\ start_pc' = "failed"
         /\ cleanup
         /\ UNCHANGED hpc

\* start from the return of `await self.cleanup()` in its finally clause: an
\* exception of cleanup leaves start, so does the CancelledError that was
\* pending; after line 229 nothing is pending and start returns
start_after_cleanup ==
    start_pc' = IF cleanup_pc = "raised" \/ start_pc = "cancelled"
                THEN "raised" ELSE "returned"

ConnectReturns ==
    \E ok \in BOOLEAN :
        /\ start_pc = "connect"
        /\ start_after_connect(ok)
        /\ UNCHANGED <<speakerVars, rec, str, openStreams, nread, boundaryVars,
                       historyVars, faultVars, cleanup_await, registryVars,
                       orderVars, apartVars>>

StartReturns ==
    /\ start_pc \in {"failed", "cancelled"}
    /\ cleanup_pc \in {"done", "raised"}
    /\ start_after_cleanup
    /\ UNCHANGED <<speakerVars, loopVars, boundaryVars, historyVars, faultVars,
                   shutdownVars, registryVars, orderVars, apartVars>>

\* ------------------------------------------------------------ specification
\* the session: commands, the tasks they start, and the transport's audio
Next ==
    \/ \E cmd \in Commands : Enqueue(cmd)
    \/ BecomeReady
    \/ HandleR
    \/ HandleEnter
    \/ HandleIgnored
    \/ ResumeAfterRec
    \/ ResumeAfterSend
    \/ ResumeAfterStreaming
    \/ \E t \in TaskIds : RecordStep(t)
    \/ \E t \in TaskIds : RecordCancelled(t)
    \/ \E t \in TaskIds : StreamingStep(t)
    \/ \E t \in TaskIds : StreamingCancelled(t)
    \/ AudioDelta
    \/ Interrupt
    \/ PlaybackWrite

Spec == Init /\ [][Next]_vars

\* the session with a shutdown: cleanup runs on the same event loop as
\* handle_commands and the tasks it created. The transport's audio callbacks
\* are left to Spec: they write the playback side only, which cleanup and the
\* command handlers never read.
ShutdownNext ==
    \/ \E cmd \in Commands : Enqueue(cmd)
    \/ BecomeReady
    \/ HandleR
    \/ HandleEnter
    \/ HandleIgnored
    \/ ResumeAfterRec
    \/ ResumeAfterSend
    \/ ResumeAfterStreaming
    \/ \E t \in TaskIds : RecordStep(t)
    \/ \E t \in TaskIds : RecordCancelled(t)
    \/ \E t \in TaskIds : StreamingStep(t)
    \/ \E t \in TaskIds : StreamingCancelled(t)
    \/ Cleanup
    \/ CleanupAfterClose
    \/ CleanupAfterRec
    \/ CleanupAfterSend
    \/ CleanupAfterStreaming

SpecShutdown == Init /\ [][ShutdownNext]_vars

\* the session from the call of start: connect has not returned yet and
\* handle_commands is not created
InitStart ==
    /\ InitFields
    /\ hpc = "uncreated"
    /\ start_pc = "connect"
    /\ tools = Registry
    /\ executed = NoCall
    /\ ApartIdle

StartNext ==
    \/ ConnectReturns
    \/ StartReturns
    \/ \E cmd \in Commands : Enqueue(cmd)
    \/ BecomeReady
    \/ HandleR
    \/ HandleEnter
    \/ HandleIgnored
    \/ ResumeAfterRec
    \/ ResumeAfterSend
    \/ ResumeAfterStreaming
    \/ \E t \in TaskIds : RecordStep(t)
    \/ \E t \in TaskIds : RecordCancelled(t)
    \/ \E t \in TaskIds : StreamingStep(t)
    \/ \E t \in TaskIds : StreamingCancelled(t)
    \/ Cleanup
    \/ CleanupAfterClose
    \/ CleanupAfterRec
    \/ CleanupAfterSend
    \/ CleanupAfterStreaming

SpecStart == InitStart /\ [][StartNext]_vars

\* the tool calls: handle_tool_call reads and writes no field of the session
ToolNext ==
    \/ \E c \in CallIds : ToolCall(c)
    \/ \E c \in CallIds : ToolSendReturns(c)

SpecTools == Init /\ [][ToolNext]_vars

\* a tool call delivered while commands are handled: handle_tool_call and
\* handle_commands are coroutines of the same event loop. One call is followed
\* (SpecTools has several at once), against MaxJointCmds commands.
JointEnqueue(cmd) == enq < MaxJointCmds /\ Enqueue(cmd)

JointCall == Min(CallIds)

JointNext ==
    \/ \E cmd \in Commands : JointEnqueue(cmd)
    \/ BecomeReady
    \/ HandleR
    \/ HandleEnter
    \/ HandleIgnored
    \/ ResumeAfterRec
    \/ ResumeAfterSend
    \/ ResumeAfterStreaming
    \/ \E t \in TaskIds : RecordStep(t)
    \/ \E t \in TaskIds : RecordCancelled(t)
    \/ \E t \in TaskIds : StreamingStep(t)
    \/ \E t \in TaskIds : StreamingCancelled(t)
    \/ ToolCall(JointCall)
    \/ ToolSendReturns(JointCall)

SpecJoint == Init /\ [][JointNext]_vars

\* execute_tool as a function of the registry and its arguments
RegistryNext == ExecuteTool

SpecRegistry == InitRegistry /\ [][RegistryNext]_vars

\* ------------------------------------------------------------ dispatcher
\* dispatcher(external_queue, target_queues): any number of target queues,
\* unbounded (maxsize 0) or bounded, all empty
InitDispatcher ==
    /\ InitSession /\ tools = Registry /\ executed = NoCall
    /\ ClientIdle /\ WeatherIdle /\ HandlersIdle
    /\ d_queue = <<>>
    /\ \E n \in 0..MaxTargets : /\ d_targets = [i \in 1..n |-> <<>>]
                                /\ d_got = [i \in 1..n |-> <<>>]
    /\ d_maxsize \in 0..MaxQueueSize
    /\ d_pc = "get" /\ d_cmd = NoCommand /\ d_i = 0
    /\ d_taken = <<>> /\ d_n = 0 /\ d_unfinished = 0

\* asyncio.Queue.full()
Full(q) == d_maxsize > 0 /\ Len(q) >= d_maxsize

\* `external_queue.task_done()` and the return to `await external_queue.get()`
dispatcher_task_done ==
    /\ d_unfinished' = d_unfinished - 1
    /\ d_pc' = "get"
    /\ d_i' = 0

\* `command = await external_queue.get()` returns (line 19); the for loop is
\* entered (line 21), or skipped when there is no target queue
dispatcher_get ==
    /\ d_pc = "get"
    /\ d_queue # <<>>
    /\ d_cmd' = Head(d_queue)
    /\ d_queue' = Tail(d_queue)
    /\ d_taken' = Append(d_taken, Head(d_queue))
    /\ IF d_targets = <<>>
       THEN dispatcher_task_done
       ELSE /\ d_pc' = "put" /\ d_i' = 1
            /\ UNCHANGED d_unfinished
    /\ UNCHANGED <<d_targets, d_got>>

\* (variant: q.put_nowait with QueueFull ignored instead of `await q.put`)
dispatcher_put_nowait ==
    /\ d_pc = "put"
    /\ IF Full(d_targets[d_i])
       THEN UNCHANGED <<d_targets, d_got>>
       ELSE /\ d_targets' = [d_targets EXCEPT ![d_i] = Append(@, d_cmd)]
            /\ d_got' = [d_got EXCEPT ![d_i] = Append(@, d_cmd)]
    /\ IF d_i = Len(d_targets)
       THEN dispatcher_task_done
       ELSE /\ d_i' = d_i + 1
            /\ UNCHANGED <<d_pc, d_unfinished>>
    /\ UNCHANGED <<d_queue, d_cmd, d_taken>>

\* one `await q.put(command)` of the for loop (line 22): it waits while q is
\* full; after the last one, task_done (line 24)
dispatcher_put ==
    /\ d_pc = "put"
    /\ ~Full(d_targets[d_i])
    /\ d_targets' = [d_targets EXCEPT ![d_i] = Append(@, d_cmd)]
    /\ d_got' = [d_got EXCEPT ![d_i] = Append(@, d_cmd)]
    /\ IF d_i = Len(d_targets)
       THEN dispatcher_task_done
       ELSE /\ d_i' = d_i + 1
            /\ UNCHANGED <<d_pc, d_unfinished>>
    /\ UNCHANGED <<d_queue, d_cmd, d_taken>>

SessionIdle ==
    UNCHANGED <<speakerVars, loopVars, boundaryVars, historyVars, faultVars,
                shutdownVars, registryVars, startVars, orderVars>>

\* a producer puts a command on the dispatcher's external_queue
DispatcherEnqueue(cmd) ==
    /\ d_n < MaxDispatch
    /\ d_queue' = Append(d_queue, [cmd |-> cmd, seq |-> d_n + 1])
    /\ d_n' = d_n + 1
    /\ d_unfinished' = d_unfinished + 1
    /\ UNCHANGED <<d_targets, d_maxsize, d_pc, d_cmd, d_i, d_taken, d_got>>
    /\ UNCHANGED <<clientVars, weatherVars, handlersVars>>
    /\ SessionIdle

DispatcherGet ==
    /\ dispatcher_get
    /\ UNCHANGED <<d_maxsize, d_n>>
    /\ UNCHANGED <<clientVars, weatherVars, handlersVars>>
    /\ SessionIdle

DispatcherPut ==
    /\ dispatcher_put
    /\ UNCHANGED <<d_maxsize, d_n>>
    /\ UNCHANGED <<clientVars, weatherVars, handlersVars>>
    /\ SessionIdle

\* the consumer of target queue i takes its first command
TargetGet(i) ==
    /\ i \in DOMAIN d_targets
    /\ d_targets[i] # <<>>
    /\ d_targets' = [d_targets EXCEPT ![i] = Tail(@)]
    /\ UNCHANGED <<d_queue, d_maxsize, d_pc, d_cmd, d_i, d_taken, d_got, d_n,
                   d_unfinished>>
    /\ UNCHANGED <<clientVars, weatherVars, handlersVars>>
    /\ SessionIdle

DispatcherNext ==
    \/ \E cmd \in Commands : DispatcherEnqueue(cmd)
    \/ DispatcherGet
    \/ DispatcherPut
    \/ \E i \in 1..MaxTargets : TargetGet(i)

SpecDispatcher == InitDispatcher /\ [][DispatcherNext]_vars

\* ------------------------------------------------------------ RealtimeClient
\* the event types a message can carry; handlers are registered for some
EventTypes == {"conversation.updated", "conversation.item.appended", "session.created"}

\* what arrives on the websocket: the text of a JSON object with a type
\* ("event"), text that json.loads rejects ("undecodable"), or JSON that is
\* not an object, such as a list ("not_object")
MessageKinds == {"event", "undecodable", "not_object"}

Message(id, kind, type) == [id |-> id, kind |-> kind, type |-> type]

\* handle_event from its call to its first await or its return (lines 43-52):
\* event.get raises AttributeError on what is not a dict; a registered
\* handler is invoked and awaited; otherwise the type is printed
\* (variant: `self.event_handlers[event_type]`, a KeyError on an unknown type)
handle_event_subscript(m) ==
    /\ passed' = Append(passed, m)
    /\ IF m.kind = "event" /\ m.type \in event_handlers
       THEN /\ invoked' = Append(invoked, m.id)
            /\ handlers_running' = handlers_running \cup {m.id}
            /\ listen_pc' = "handler"
            /\ listen_cur' = m.id
       ELSE /\ listen_pc' = "raised"
            /\ UNCHANGED <<invoked, handlers_running, listen_cur>>

handle_event(m) ==
    /\ passed' = Append(passed, m)
    /\ IF m.kind = "not_object"
       THEN /\ listen_pc' = "raised"
            /\ UNCHANGED <<invoked, handlers_running, listen_cur>>
       ELSE IF m.type \in event_handlers
       THEN /\ invoked' = Append(invoked, m.id)
            /\ handlers_running' = handlers_running \cup {m.id}
            /\ listen_pc' = "handler"
            /\ listen_cur' = m.id
       ELSE /\ listen_pc' = "recv"
            /\ UNCHANGED <<invoked, handlers_running, listen_cur>>

\* one iteration of listen's `async for` up to its await (lines 36-38): the
\* next message is decoded and passed to handle_event; a JSONDecodeError is
\* not caught by line 39 and leaves listen
\* (variant: `asyncio.create_task(self.handle_event(event))`, not awaited)
listen_spawns ==
    /\ listen_pc = "recv"
    /\ ws_in # <<>>
    /\ ws_in' = Tail(ws_in)
    /\ IF Head(ws_in).kind = "undecodable"
       THEN /\ listen_pc' = "raised"
            /\ UNCHANGED <<passed, invoked, handlers_running, listen_cur>>
       ELSE /\ passed' = Append(passed, Head(ws_in))
            /\ UNCHANGED <<listen_pc, listen_cur>>
            /\ IF Head(ws_in).kind = "event" /\ Head(ws_in).type \in event_handlers
               THEN /\ invoked' = Append(invoked, Head(ws_in).id)
                    /\ handlers_running' = handlers_running \cup {Head(ws_in).id}
               ELSE UNCHANGED <<invoked, handlers_running>>

listen ==
    /\ listen_pc = "recv"
    /\ ws_in # <<>>
    /\ ws_in' = Tail(ws_in)
    /\ IF Head(ws_in).kind = "undecodable"
       THEN /\ listen_pc' = "raised"
            /\ UNCHANGED <<passed, invoked, handlers_running, listen_cur>>
       ELSE handle_event(Head(ws_in))

\* the handler of message id returns (ok) or raises: handle_event and listen
\* were awaiting it when it is the current one, and no clause of listen
\* catches what it raises
handler_returns(id, ok) ==
    /\ id \in handlers_running
    /\ handlers_running' = handlers_running \ {id}
    /\ IF listen_pc = "handler" /\ listen_cur = id
       THEN /\ listen_pc' = IF ok THEN "recv" ELSE "raised"
            /\ listen_cur' = None
       ELSE UNCHANGED <<listen_pc, listen_cur>>

ClientAlone ==
    /\ UNCHANGED <<speakerVars, loopVars, boundaryVars, historyVars, faultVars,
                   shutdownVars, registryVars, startVars, orderVars>>
    /\ UNCHANGED <<dispatcherVars, weatherVars, handlersVars>>

\* the server sends one more message
Arrive(kind, type) ==
    /\ n_msgs < MaxMsgs
    /\ ws_in' = Append(ws_in, Message(n_msgs + 1, kind, type))
    /\ n_msgs' = n_msgs + 1
    /\ UNCHANGED <<event_handlers, listen_pc, listen_cur, handlers_running,
                   passed, invoked>>
    /\ ClientAlone

\* on(event_type, handler), lines 65-69
On(type) ==
    /\ type \notin event_handlers
    /\ event_handlers' = event_handlers \cup {type}
    /\ UNCHANGED <<ws_in, listen_pc, listen_cur, handlers_running, passed,
                   invoked, n_msgs>>
    /\ ClientAlone

Listen ==
    /\ listen
    /\ UNCHANGED <<event_handlers, n_msgs>>
    /\ ClientAlone

HandlerReturns(id) ==
    \E ok \in BOOLEAN :
        /\ handler_returns(id, ok)
        /\ UNCHANGED <<event_handlers, ws_in, passed, invoked, n_msgs>>
        /\ ClientAlone

\* the connection is closed once its messages were read: the `async for`
\* ends, or raises ConnectionClosed, which line 39 catches
ConnectionClosed ==
    /\ listen_pc = "recv"
    /\ ws_in = <<>>
    /\ listen_pc' = "ended"
    /\ UNCHANGED <<event_handlers, ws_in, listen_cur, handlers_running, passed,
                   invoked, n_msgs>>
    /\ ClientAlone

ClientNext ==
    \/ \E kind \in MessageKinds, type \in EventTypes : Arrive(kind, type)
    \/ \E type \in EventTypes : On(type)
    \/ Listen
    \/ \E id \in 1..MaxMsgs : HandlerReturns(id)
    \/ ConnectionClosed

SpecClient == Init /\ [][ClientNext]_vars

\* ------------------------------------------------------------ WeatherTool
ForecastTypes == {"current", "hourly", "5day"}
Locations == {"", "London"}          \* "": no location given (None)
UnitNames == {"", "F", "C"}          \* "": no unit given (None)
\* what the geocoding service does: a list with a place, an empty list, a
\* failed request, or a place without 'lat'
GeoOutcomes == {"found", "empty", "error", "malformed"}
NetOutcomes == {"ok", "error"}       \* what the weather service does

GeocodingUrl == "geo/1.0/direct"
DefaultLocation == "37.7749,-122.4194"
DefaultUnits == "F"

\* BASE_URL and the two FORECAST_URL (lines 92, 116, 141)
ForecastUrl(forecast_type) ==
    CASE forecast_type = "current" -> "data/2.5/weather"
      [] forecast_type = "hourly" -> "data/3.0/onecall"
      [] OTHER -> "data/2.5/forecast"

\* (data[0]['lat'], data[0]['lon']) of the place found for a city
Coordinates(city) == "lat,lon of " \o city

Request(url, at, units) == [at |-> at, units |-> units, url |-> url]

Returns(value, requests) ==
    [exc |-> "none", raised |-> FALSE, value |-> value, requests |-> requests]

Raises(exc, message, requests) ==
    [exc |-> exc, raised |-> TRUE, value |-> WeatherValue("exception", message, ""),
     requests |-> requests]

\* `unit = unit or self.default_units` and line 94
Units(unit) == IF (IF unit = "" THEN DefaultUnits ELSE unit) = "F"
               THEN "imperial" ELSE "metric"

\* _get_location_coordinates (lines 67-87): one request; a KeyError of line
\* 83 is no RequestException and passes line 86
get_location_coordinates(location, geo) ==
    LET requests == <<Request(GeocodingUrl, location, "")>>
    IN  CASE geo = "found" ->
               Returns(WeatherValue("coordinates", Coordinates(location), ""), requests)
          [] geo = "empty" -> Returns(WeatherValue("None", "", ""), requests)
          [] geo = "error" ->
               Raises("Exception", "Error getting location coordinates", requests)
          [] OTHER -> Raises("KeyError", "lat", requests)

\* _make_request (lines 162-183) as called by get_current_weather,
\* get_hourly_forecast and get_5day_forecast: one request; every failure of
\* it is raised again as an Exception
make_request(url, latlong, unit, net) ==
    LET requests == <<Request(url, latlong, Units(unit))>>
    IN  IF net = "ok"
        THEN Returns(WeatherValue(url, latlong, Units(unit)), requests)
        ELSE Raises("Exception", "Failed to connect to weather service", requests)

\* get_current_weather_by_city, get_hourly_forecast_by_city and
\* get_5day_forecast_by_city (lines 105-111, 130-136, 154-160), which differ
\* in the URL only
\* (variant: the weather is asked for self.default_location)
by_city_default_location(url, city, unit, geo, net) ==
    LET coordinates == get_location_coordinates(city, geo)
        weather == make_request(url, DefaultLocation, unit, net)
    IN  IF coordinates.raised THEN coordinates
        ELSE IF coordinates.value.kind = "None"
        THEN Raises("ValueError", "Could not find coordinates for city: " \o city,
                    coordinates.requests)
        ELSE [weather EXCEPT !.requests = coordinates.requests \o @]

by_city(url, city, unit, geo, net) ==
    LET coordinates == get_location_coordinates(city, geo)
        weather == make_request(url, coordinates.value.at, unit, net)
    IN  IF coordinates.raised THEN coordinates
        ELSE IF coordinates.value.kind = "None"
        THEN Raises("ValueError", "Could not find coordinates for city: " \o city,
                    coordinates.requests)
        ELSE [weather EXCEPT !.requests = coordinates.requests \o @]

get_current_weather_by_city(city, unit, geo, net) ==
    by_city(ForecastUrl("current"), city, unit, geo, net)

\* format_weather_response (lines 185-224): the fields of the forecast type
\* picked out of the response, with "unit": self.default_units
format_weather_response(data, forecast_type) ==
    WeatherValue(forecast_type, data.at, DefaultUnits)

\* execute (lines 29-65): whatever is raised inside its try, the ValueError
\* of lines 51 and 60 included, is caught at line 64 and returned as
\* {"error": str(e)}
execute(forecast_type, location, unit, geo, net) ==
    LET result ==
            IF forecast_type \notin ForecastTypes
            THEN Raises("ValueError", "Invalid forecast type: " \o forecast_type, <<>>)
            ELSE IF location # ""
            THEN by_city(ForecastUrl(forecast_type), location, unit, geo, net)
            ELSE make_request(ForecastUrl(forecast_type), DefaultLocation, unit, net)
    IN  IF result.raised
        THEN Returns(WeatherValue("error", result.value.at, ""), result.requests)
        ELSE Returns(format_weather_response(result.value, forecast_type),
                     result.requests)

WeatherAlone ==
    /\ UNCHANGED <<speakerVars, loopVars, boundaryVars, historyVars, faultVars,
                   shutdownVars, registryVars, startVars, orderVars>>
    /\ UNCHANGED <<clientVars, dispatcherVars, handlersVars>>

WeatherCall(op, forecast_type, location, unit, geo, net) ==
    [op |-> op, forecast_type |-> forecast_type, location |-> location,
     unit |-> unit, geo |-> geo, net |-> net]

\* what the caller gets: the value returned or the exception raised
WeatherOut(out) == [exc |-> out.exc, raised |-> out.raised, value |-> out.value]

\* a caller (the tool registry, a test) calls execute
Execute ==
    \E forecast_type \in ForecastTypes \cup {"daily"}, location \in Locations,
       unit \in UnitNames, geo \in GeoOutcomes, net \in NetOutcomes :
        /\ w_call' = WeatherCall("execute", forecast_type, location, unit, geo, net)
        /\ w_requests' = execute(forecast_type, location, unit, geo, net).requests
        /\ w_out' = WeatherOut(execute(forecast_type, location, unit, geo, net))
        /\ WeatherAlone

\* a caller calls get_current_weather_by_city
GetCurrentWeatherByCity ==
    \E city \in Locations \ {""}, unit \in UnitNames, geo \in GeoOutcomes,
       net \in NetOutcomes :
        /\ w_call' = WeatherCall("get_current_weather_by_city", "current", city,
                                 unit, geo, net)
        /\ w_requests' = get_current_weather_by_city(city, unit, geo, net).requests
        /\ w_out' = WeatherOut(get_current_weather_by_city(city, unit, geo, net))
        /\ WeatherAlone

WeatherNext ==
    \/ Execute
    \/ GetCurrentWeatherByCity

SpecWeather == Init /\ [][WeatherNext]_vars

\* ------------------------------------------------------------ AudioHandler
\* start_recording (audio_handler.py, lines 30-42): nothing happens while
\* recording is true; otherwise frames is emptied, a stream is opened (p.open
\* may raise), recording is set and a record task is created
ah_start_recording(ok) ==
    IF ah_recording
    THEN UNCHANGED <<ah_recording, ah_stream, ah_open, ah_frames, ah_tasks, ah_opened>>
    ELSE /\ ah_frames' = <<>>
         /\ IF ok
            THEN /\ ah_stream' = ah_opened + 1
                 /\ ah_open' = ah_open \cup {ah_opened + 1}
                 /\ ah_opened' = ah_opened + 1
                 /\ ah_recording' = TRUE
                 /\ ah_tasks' = [ah_tasks EXCEPT ![ah_opened + 1] = "new"]
            ELSE UNCHANGED <<ah_recording, ah_stream, ah_open, ah_tasks, ah_opened>>

\* one run of a record task up to its sleep(0) or its end (lines 44-50): the
\* test of `while self.recording`, then a read of self.stream and an append;
\* what the read raises is not caught and ends the task
ah_record(t, readOk) ==
    IF ~ah_recording
    THEN /\ ah_tasks' = [ah_tasks EXCEPT ![t] = "done"]
         /\ UNCHANGED <<ah_frames, ah_reads, ah_closed_reads>>
    ELSE IF ah_stream \notin ah_open
    THEN /\ ah_tasks' = [ah_tasks EXCEPT ![t] = "raised"]
         /\ ah_closed_reads' = ah_closed_reads + 1
         /\ UNCHANGED <<ah_frames, ah_reads>>
    ELSE IF readOk
    THEN /\ ah_frames' = Append(ah_frames, <<ah_stream, ah_reads + 1>>)
         /\ ah_reads' = ah_reads + 1
         /\ ah_tasks' = [ah_tasks EXCEPT ![t] = "sleep"]
         /\ UNCHANGED ah_closed_reads
    ELSE /\ ah_tasks' = [ah_tasks EXCEPT ![t] = "raised"]
         /\ UNCHANGED <<ah_frames, ah_reads, ah_closed_reads>>

\* stop_recording (lines 52-71): nothing happens while recording is false;
\* otherwise recording is cleared and the stream is stopped and closed; the
\* frames are written to the output file; self.stream keeps the closed stream
\* and the record task is neither cancelled nor awaited
ah_stop_recording ==
    IF ~ah_recording
    THEN UNCHANGED <<ah_recording, ah_open>>
    ELSE /\ ah_recording' = FALSE
         /\ ah_open' = ah_open \ {ah_stream}

AudioHandlerAlone ==
    /\ SessionIdle
    /\ UNCHANGED <<clientVars, dispatcherVars, weatherVars, audioIOVars, speechVars>>

AhStartRecording ==
    /\ ah_opened < MaxAhStreams
    /\ \E ok \in BOOLEAN : ah_start_recording(ok)
    /\ UNCHANGED <<ah_reads, ah_closed_reads>>
    /\ AudioHandlerAlone

AhRecord(t) ==
    /\ ah_tasks[t] \in {"new", "sleep"}
    /\ ah_reads < MaxAhReads
    /\ \E readOk \in BOOLEAN : ah_record(t, readOk)
    /\ UNCHANGED <<ah_recording, ah_stream, ah_open, ah_opened>>
    /\ AudioHandlerAlone

AhStopRecording ==
    /\ ah_stop_recording
    /\ UNCHANGED <<ah_stream, ah_frames, ah_tasks, ah_opened, ah_reads, ah_closed_reads>>
    /\ AudioHandlerAlone

AudioHandlerNext ==
    \/ AhStartRecording
    \/ \E t \in AhTaskIds : AhRecord(t)
    \/ AhStopRecording

SpecAudioHandler == Init /\ [][AudioHandlerNext]_vars

\* ------------------------------------------------------------ AudioIOHandler
\* start_recording (audio.py, lines 22-37): while recording is true the
\* playback is stopped and the method goes on; recording is set, frames is
\* emptied and self.stream is replaced by the stream p.open returns (p.open
\* may raise, after the first two assignments)
io_start_recording(ok) ==
    /\ io_recording' = TRUE
    /\ io_frames' = <<>>
    /\ IF ok
       THEN /\ io_stream' = io_opened + 1
            /\ io_open' = io_open \cup {io_opened + 1}
            /\ io_opened' = io_opened + 1
       ELSE UNCHANGED <<io_stream, io_open, io_opened>>

\* record (lines 39-46): one read of self.stream while recording is true and
\* a stream is set; what the read raises (the stream is closed, the device
\* fails) is logged
io_record(readOk) ==
    IF io_recording /\ io_stream # None /\ io_stream \in io_open /\ readOk
    THEN /\ io_frames' = Append(io_frames, <<io_stream, io_reads + 1>>)
         /\ io_reads' = io_reads + 1
    ELSE UNCHANGED <<io_frames, io_reads>>

\* stop_recording (lines 48-69): nothing happens while recording is false;
\* otherwise recording is cleared, self.stream is stopped, closed and set to
\* None, and frames is emptied after the WAV data is built; with no stream
\* set, line 55 raises AttributeError after recording was cleared
io_stop_recording ==
    IF ~io_recording
    THEN UNCHANGED <<io_recording, io_stream, io_open, io_frames>>
    ELSE /\ io_recording' = FALSE
         /\ IF io_stream = None
            THEN UNCHANGED <<io_stream, io_open, io_frames>>
            ELSE /\ io_open' = io_open \ {io_stream}
                 /\ io_stream' = None
                 /\ io_frames' = <<>>

\* cleanup (lines 90-97): the stream self.stream refers to is stopped and
\* closed, PyAudio is terminated
io_cleanup ==
    /\ io_open' = IF io_stream # None THEN io_open \ {io_stream} ELSE io_open
    /\ io_cleaned' = TRUE

AudioIOAlone ==
    /\ SessionIdle
    /\ UNCHANGED <<clientVars, dispatcherVars, weatherVars, audioHandlerVars,
                   speechVars>>

IoStartRecording ==
    /\ ~io_cleaned
    /\ io_opened < MaxIoStreams
    /\ \E ok \in BOOLEAN : io_start_recording(ok)
    /\ UNCHANGED <<io_reads, io_cleaned>>
    /\ AudioIOAlone

IoRecord ==
    /\ ~io_cleaned
    /\ io_reads < MaxIoReads
    /\ \E readOk \in BOOLEAN : io_record(readOk)
    /\ UNCHANGED <<io_recording, io_stream, io_open, io_opened, io_cleaned>>
    /\ AudioIOAlone

IoStopRecording ==
    /\ ~io_cleaned
    /\ io_stop_recording
    /\ UNCHANGED <<io_opened, io_reads, io_cleaned>>
    /\ AudioIOAlone

IoCleanup ==
    /\ ~io_cleaned
    /\ io_cleanup
    /\ UNCHANGED <<io_recording, io_stream, io_frames, io_opened, io_reads>>
    /\ AudioIOAlone

AudioIONext ==
    \/ IoStartRecording
    \/ IoRecord
    \/ IoStopRecording
    \/ IoCleanup

SpecAudioIO == Init /\ [][AudioIONext]_vars

\* ------------------------------------------------------------ SpeechHandler
\* the event types initialize_realtime registers a handler for (speech.py,
\* lines 25-27)
ConversationTypes == {"conversation.updated", "conversation.item.appended",
                      "conversation.item.completed"}

\* the event types the server sends to a SpeechHandler
SpeechEventTypes == ConversationTypes \cup {"session.created"}

\* a SpeechHandler after __init__ (lines 12-18): the RealtimeClient is made,
\* the initialize_realtime task is awaiting connect, listen is not created
InitSpeech ==
    /\ InitSession /\ tools = Registry /\ executed = NoCall
    /\ DispatcherIdle /\ WeatherIdle /\ AudioHandlerIdle /\ AudioIOIdle
    /\ event_handlers = {} /\ ws_in = <<>>
    /\ listen_pc = "uncreated" /\ listen_cur = None /\ handlers_running = {}
    /\ passed = <<>> /\ invoked = <<>> /\ n_msgs = 0
    /\ sp_pc = "connect" /\ sp_early = 0

\* initialize_realtime from the return of websockets.connect inside connect
\* (realtime_client.py, lines 24-29) to its end (speech.py, lines 24-27):
\* connect creates the listen task and returns, and the three on() calls
\* follow with no await between; when the connection fails connect raises
\* (variant: `await asyncio.sleep(0)` before the on() calls, up to that await)
initialize_realtime_yields(ok) ==
    IF ok
    THEN /\ listen_pc' = "recv"
         /\ sp_pc' = "on"
         /\ UNCHANGED event_handlers
    ELSE /\ sp_pc' = "raised"
         /\ UNCHANGED <<listen_pc, event_handlers>>

initialize_realtime(ok) ==
    IF ok
    THEN /\ listen_pc' = "recv"
         /\ event_handlers' = event_handlers \cup ConversationTypes
         /\ sp_pc' = "done"
    ELSE /\ sp_pc' = "raised"
         /\ UNCHANGED <<listen_pc, event_handlers>>

InitializeRealtime ==
    /\ sp_pc = "connect"
    /\ \E ok \in BOOLEAN : initialize_realtime(ok)
    /\ sp_early' = n_msgs
    /\ UNCHANGED <<ws_in, listen_cur, handlers_running, passed, invoked, n_msgs>>
    /\ SessionIdle
    /\ UNCHANGED <<dispatcherVars, weatherVars, audioHandlerVars, audioIOVars>>

SpeechNext ==
    \/ \E kind \in MessageKinds, type \in SpeechEventTypes : Arrive(kind, type)
    \/ InitializeRealtime
    \/ Listen
    \/ \E id \in 1..MaxMsgs : HandlerReturns(id)
    \/ ConnectionClosed

SpecSpeech == InitSpeech /\ [][SpeechNext]_vars

\* ------------------------------------------------------------ the claims
AliveRec == {t \in TaskIds : rec[t] \in Alive}
AliveStr == {t \in TaskIds : str[t] \in Alive}

\* a step in which handle_commands takes an 'r' that passes the readiness test
TakesR == taken' # taken /\ lastTaken'.cmd = "r" /\ lastTaken'.seq # lastTaken.seq

\* C1: at most one capture stream is open and at most one record_audio task is
\* alive in every reachable state, and an 'r' handled while recording is true
\* opens no stream and creates no recording task.
C1_NoDoubleStart ==
    /\ [](Cardinality(openStreams) <= 1 /\ Cardinality(AliveRec) <= 1)
    /\ [][(TakesR /\ recording) =>
            (openStreams' = openStreams /\ stream' = stream /\ rec' = rec
             /\ recording_task' = recording_task)]_vars

\* C1 witness: an 'r' has been handled while recording was true, and one
\* stream and one recording task exist.
C1_Witness ==
    /\ lastTaken.cmd = "r" /\ lastTaken.found
    /\ Cardinality(openStreams) = 1 /\ Cardinality(AliveRec) = 1

\* C2: commands are handled one at a time: whenever a command is taken from
\* the queue, no handling of an earlier command is still under way (the
\* handler is not suspended inside start_recording/stop_recording).
C2_OneAtATime ==
    [][taken' # taken => (inProgress = 0 /\ hpc = "get" /\ ~conversation_lock)]_vars

\* C2 witness: a command is waiting in the queue while the handling of an
\* 'enter' is suspended at its send_audio.
C2_Witness ==
    /\ hpc = "await_send" /\ inProgress = 1 /\ conversation_lock
    /\ external_queue # <<>>

\* C3: for every tool call, exactly one send_tool_result call has been made
\* when handle_tool_call is over, and never more than one before.
C3_ExactlyOneToolResult ==
    \A c \in CallIds :
        /\ Len(tc[c].results) <= 1
        /\ tc[c].pc \in {"done", "raised"} => Len(tc[c].results) = 1

\* C4: a command that arrived before the orchestrator was ready is never
\* acted upon.
C4_EarlyCommandDropped == ~lastTaken.early

\* C5: when an 'enter' has closed a turn in which n >= 1 frames were captured,
\* send_audio was called exactly once in that turn, with the concatenation of
\* those frames in capture order, and the session is not recording.
C5_TurnSendsCapturedFrames ==
    (turn = "closed" /\ Len(captured) >= 1) =>
        /\ Len(sent) = 1
        /\ sent[1].data = Join(captured)
        /\ sent[1].datalen = ChunkLen * Len(captured)
        /\ ~recording

\* C5 witness: a turn with three captured frames has been closed and sent.
C5_Witness ==
    /\ turn = "closed" /\ Len(captured) = 3 /\ Len(sent) = 1
    /\ lastTaken.cmd = "enter" /\ lastTaken.found

\* C6 as stated: from the end of the handling of an 'r' to the end of the
\* handling of the next 'enter', no audio delta is played.
C6_NoPlaybackUntilEnterHandled == lastDone = "r" => lastDelta # "played"

\* C6 amended: from the handling of an 'r' to the beginning of the handling
\* of the next 'enter', the speaker is muted, no audio delta is played and the
\* playback buffer is empty.
C6_NoPlaybackUntilEnterBegins ==
    lastDeq = "r" => (speaker_muted /\ lastDelta # "played" /\ playback_buffer = 0)

\* C6 witness: after an 'r', an audio delta arrived and play_audio skipped it.
C6_Witness == lastDeq = "r" /\ lastDelta = "muted"

\* C7: while recording is true the speaker is muted, play_audio forwards no
\* audio delta and nothing is queued for playback.
C7_NoPlaybackWhileRecording ==
    recording => (speaker_muted /\ lastDelta # "played" /\ playback_buffer = 0)

\* C7 witness: an audio delta arrived while recording and was skipped.
C7_Witness == recording /\ lastDelta = "muted" /\ Len(frames) >= 1

\* C8: at most one streaming task started by the orchestrator is alive.
C8_OneStreamingTask == Cardinality(AliveStr) <= 1

\* C9 as stated: the second of two 'r' commands handled in succession changes
\* none of recording, stream, frames, the recording task, the streaming task.
C9_SecondRChangesNothing ==
    [][(TakesR /\ lastTaken.cmd = "r") =>
         UNCHANGED <<recording, stream, frames, recording_task, streaming_task,
                     rec, str>>]_vars

\* C9 amended: the second of two 'r' commands handled in succession changes
\* none of them when the first one opened the capture stream (recording is
\* true when the second is handled).
C9_SecondRWhileRecordingChangesNothing ==
    [][(TakesR /\ lastTaken.cmd = "r" /\ recording) =>
         UNCHANGED <<recording, stream, frames, recording_task, streaming_task,
                     rec, str, openStreams>>]_vars

\* C9 witness: two 'r' commands were handled in succession, the second while
\* recording, with a captured frame in the buffer.
C9_Witness ==
    /\ lastTaken.cmd = "r" /\ lastTaken.prev = "r" /\ lastTaken.found
    /\ recording /\ Len(frames) >= 1

\* C10: the k-th command taken from the queue is the k-th command that was
\* put on it, and the queue holds the later ones in the order they were put.
C10_ArrivalOrder ==
    /\ lastTaken.seq = taken
    /\ \A i \in DOMAIN external_queue : external_queue[i].seq = taken + i

\* C10 witness: three commands have been handled and a fourth is waiting.
C10_Witness == taken = 3 /\ Len(external_queue) = 1 /\ lastTaken.seq = 3

\* ------------------------------------------------------------ shutdown claims
\* the handle_commands task has not ended (it has no return and is never
\* cancelled by cleanup)
HandlerAlive == hpc \in {"sleep", "get", "await_rec", "await_send", "await_str"}

\* `await self.client.close()` has returned
TransportClosed == cleanup_pc \in {"await_rec", "await_send", "await_str", "done"}

\* C11: once cleanup has completed, the command handler, the recording tasks
\* and the streaming tasks have all ended, and no capture stream is open.
C11_ShutdownComplete ==
    cleanup_pc = "done" =>
        /\ ~HandlerAlive
        /\ AliveRec = {} /\ AliveStr = {}
        /\ openStreams = {} /\ stream = None

\* C12: once cleanup has begun, a command taken from the queue opens no
\* capture stream and starts or stops no recording.
C12_NoCommandAfterShutdown ==
    [][(cleanup_pc # "none" /\ taken' # taken) =>
         UNCHANGED <<recording, stream, openStreams, rec, str>>]_vars

\* C13: at the step in which cleanup's close of the Transport returns, every
\* recording task and streaming task has already been cancelled and has ended.
C13_TasksEndBeforeClose ==
    [][(cleanup_pc = "await_close" /\ TransportClosed') =>
         (AliveRec = {} /\ AliveStr = {})]_vars

\* ------------------------------------------------------------ tool claims
\* the names of the tools of the registry
Registered == {tools[i].name : i \in DOMAIN tools}

NotFound(name) == "Tool '" \o name \o "' not found"

\* C14 as stated: a tool call whose name no tool has is answered with the
\* payload {error: "tool not found"} and no exception leaves handle_tool_call.
C14_UnknownToolPayload ==
    \A c \in CallIds :
        (tc[c].pc # "idle" /\ tc[c].name \notin Registered) =>
            /\ tc[c].results = <<ToolResult(c, [key |-> "error",
                                                value |-> "tool not found"])>>
            /\ tc[c].pc # "raised"

\* C14 amended: a tool call whose name no tool has makes exactly one call of
\* send_tool_result, under the call's id, with {error: "Tool '<name>' not
\* found"}; an exception leaves handle_tool_call only when that call raised.
C14_UnknownToolAnswered ==
    \A c \in CallIds :
        (tc[c].pc # "idle" /\ tc[c].name \notin Registered) =>
            /\ tc[c].results = <<ToolResult(c, [key |-> "error",
                                                value |-> NotFound(tc[c].name)])>>
            /\ tc[c].pc \in {"send_error", "done", "raised"}
            /\ tc[c].pc = "raised" => tc[c].exc = "send failed"

\* C14 witness: the call for "frobnicate" has been answered and is over.
C14_Witness ==
    \E c \in CallIds :
        /\ tc[c].name = "frobnicate" /\ tc[c].pc = "done"
        /\ tc[c].results[1].payload.value = "Tool 'frobnicate' not found"

\* C15: when the execute of a registered tool raises, the first call of
\* send_tool_result carries {error: <message>} under the call's id, at least
\* one call is made, and the only exception that can leave handle_tool_call is
\* the transport's, after both of its sends raised.
C15_ToolFailureAnswered ==
    \A c \in CallIds :
        (tc[c].pc # "idle" /\ tc[c].name \in Registered /\ tc[c].raises) =>
            /\ Len(tc[c].results) >= 1
            /\ tc[c].results[1] =
                   ToolResult(c, [key |-> "error", value |-> "failed: weather"])
            /\ tc[c].pc = "raised" =>
                   (tc[c].exc = "send failed" /\ Len(tc[c].results) = 2)

\* C15 witness: a get_weather call whose execute raised has been answered
\* with the error payload and is over.
C15_Witness ==
    \E c \in CallIds :
        /\ tc[c].name = "get_weather" /\ tc[c].raises /\ tc[c].pc = "done"
        /\ Len(tc[c].results) = 1 /\ tc[c].results[1].payload.key = "error"

C17_ToolsOffTheLock ==
    /\ [](/\ tc[JointCall].pc = "idle" => ENABLED ToolCall(JointCall)
          /\ tc[JointCall].pc \in {"send_result", "send_error"} =>
                 ENABLED ToolSendReturns(JointCall))
    /\ [][tc' # tc => UNCHANGED <<speakerVars, loopVars, historyVars>>]_vars

\* C17 witness: a tool call was executed and answered while the handler of one
\* 'enter' command held the lock, suspended at its send_audio.
C17_Witness ==
    /\ conversation_lock /\ hpc = "await_send" /\ lastTaken.cmd = "enter"
    /\ tc[JointCall].pc = "done" /\ tc[JointCall].during = taken

\* ------------------------------------------------------------ interrupt and failures
\* send_audio has been called for the turn and the session is not recording
AwaitingResponse == sent # <<>> /\ ~recording

\* chunks of a response are queued for playback
Playing == playback_buffer > 0

\* what the claim calls Idle after an interrupt
IdleAfter ==
    /\ playback_buffer' = 0
    /\ ~recording' /\ openStreams' = {}
    /\ UNCHANGED <<recording, frames, stream>>

\* C18 as stated: an interrupt delivered while the session is awaiting or
\* playing a response empties the playback buffer, leaves recording, frames
\* and the capture stream as they were, and afterwards recording is false and
\* no capture stream is open.
C18_InterruptLeavesIdle ==
    [][(Interrupt /\ (AwaitingResponse \/ Playing)) => IdleAfter]_vars

\* C18 amended: the same for an interrupt delivered while no command is being
\* handled (the 'enter' that closed the turn has been handled to its end).
C18_InterruptOutsideHandlingLeavesIdle ==
    [][(Interrupt /\ (AwaitingResponse \/ Playing) /\ inProgress = 0) =>
         IdleAfter]_vars

\* C18 witness: after an 'enter' sent a turn and was handled to its end, an
\* interrupt arrived; nothing is queued for playback.
C18_Witness ==
    /\ lastDelta = "interrupt" /\ playback_buffer = 0
    /\ sent # <<>> /\ turn = "closed" /\ lastDone = "enter" /\ inProgress = 0
    /\ ~recording /\ openStreams = {}

\* C19: when the capture loop of the current recording has ended, recording
\* is false (a failed read ends the loop, so it must also end the recording).
C19_ReadFailureEndsRecording ==
    (recording_task # None /\ rec[recording_task] = "done") => ~recording

\* C20: the command handler never ends; the step in which a send_audio
\* awaited by an 'enter' raises takes the handler back to its queue.get with
\* the lock released, recording false and the capture stream closed; and from
\* then on a command waiting in the queue can be taken.
C20_SendFailureAborts ==
    /\ [](HandlerAlive)
    /\ [][(hpc = "await_send" /\ hpc' # hpc /\ sendFailedAt' # 0) =>
            (/\ hpc' = "get" /\ ~conversation_lock' /\ inProgress' = 0
             /\ ~recording' /\ stream' = None /\ openStreams' = {})]_vars
    /\ []((sendFailedAt # 0 /\ hpc = "get" /\ external_queue # <<>>) =>
            ENABLED (HandleR \/ HandleEnter \/ HandleIgnored))

\* C20 witness: send_audio raised, and an 'r' enqueued after that has been
\* handled and started a recording.
C20_Witness ==
    /\ sendFailedAt # 0 /\ lastTaken.seq > sendFailedAt
    /\ lastTaken.cmd = "r" /\ recording /\ HandlerAlive

\* ------------------------------------------------------------ C21
\* C21: when connect fails during start, start does not return normally:
\* start has returned normally only if connect had returned and the tasks of
\* the session were created.
C21_ConnectFailureSurfaced ==
    start_pc = "returned" => hpc # "uncreated"

\* ------------------------------------------------------------ C27
\* C27: in the handling of an 'r', the capture stream is opened only after
\* playback cancellation has been requested, and the tasks are started only
\* after the stream is opened.
C27_CancelThenOpenThenTasks ==
    \A i \in DOMAIN effects :
        effects[i] = "open_stream" =>
            /\ \E j \in 1..(i - 1) : effects[j] = "stop_playback"
            /\ \A k \in DOMAIN effects : effects[k] = "create_tasks" => i < k

\* ------------------------------------------------------------ C28
\* C28: when send_audio is called for a turn, no record_audio task is alive
\* (the one of the turn has terminated); while the send is awaited the
\* payload is the encoding of the buffer as it is; and once a payload has been
\* assembled for a turn no frame is appended to the buffer.
C28_CaptureStoppedBeforeFlush ==
    /\ [](hpc = "await_send" =>
            /\ AliveRec = {}
            /\ rec[recording_task] \in Finished
            /\ sent[Len(sent)] = encode_wav(frames))
    /\ [][Len(sent') > Len(sent) => AliveRec' = {}]_vars
    /\ [][sent # <<>> => Len(frames') <= Len(frames)]_vars

\* C28 witness: the 'enter' found the record_audio task suspended at its
\* sleep, waited for it to end, and is now awaiting send_audio with the two
\* frames the task had appended.
C28_Witness ==
    /\ hpc = "await_send" /\ lastTaken.cmd = "enter"
    /\ Len(frames) = 2 /\ Len(sent) = 1
    /\ rec[recording_task] = "done"

\* ------------------------------------------------------------ C29
\* C29: after an interrupt has been handled, an audio delta that arrives
\* before the next command is taken is not played.
C29_DeltasAfterInterruptDiscarded ==
    [][(lastDelta = "interrupt" /\ taken' = taken /\ lastDelta' # lastDelta) =>
            lastDelta' \in {"muted", "empty"}]_vars

\* ------------------------------------------------------------ C24
Front(q) == SubSeq(q, 1, Len(q) - 1)

\* C24: each target queue has been given every command taken from
\* external_queue exactly once and in the order of taking: what was put on it
\* is the sequence of the commands taken, the last one aside while the for
\* loop has not reached that queue yet.
C24_EveryTargetInOrder ==
    \A i \in DOMAIN d_got :
        d_got[i] = IF d_pc = "put" /\ i >= d_i THEN Front(d_taken) ELSE d_taken

\* C24 witness: three commands went to two bounded queues, the dispatcher
\* waiting on a full queue in between, and the last queue has all three.
C24_Witness ==
    /\ Len(d_targets) = 2 /\ d_maxsize = 1
    /\ Len(d_taken) = 3 /\ d_pc = "get"
    /\ Len(d_got[2]) = 3 /\ d_got[1] = d_got[2]
    /\ d_got[1][1].cmd # d_got[1][2].cmd

\* ------------------------------------------------------------ C22
\* a step in which handle_event is given an event whose type has no handler
UnhandledEvent ==
    /\ Len(passed') > Len(passed)
    /\ passed'[Len(passed')].kind = "event"
    /\ passed'[Len(passed')].type \notin event_handlers

\* C22: handle_event given an event of a type without a handler invokes no
\* handler, raises nothing (listen is back at its `async for`, where the
\* next message is taken) and leaves the handlers of the client as they are.
C22_UnhandledEventIgnored ==
    [][UnhandledEvent =>
            /\ invoked' = invoked
            /\ handlers_running' = handlers_running
            /\ event_handlers' = event_handlers
            /\ listen_pc' = "recv"]_vars

\* C22 witness: an event without a handler was passed to handle_event and the
\* message after it was dispatched to its handler.
C22_Witness ==
    /\ Len(passed) >= 2
    /\ passed[1].kind = "event" /\ invoked # <<>> /\ invoked[1] = passed[2].id
    /\ passed[1].type # passed[2].type

\* ------------------------------------------------------------ C23
\* C23: no message ends the listen loop: neither one that cannot be decoded
\* nor one whose handler raises makes an exception leave listen.
C23_MalformedIgnored == listen_pc # "raised"

\* ------------------------------------------------------------ C30
\* C30: messages are passed to handle_event in arrival order, at most one
\* handler is running at any time, and a message is passed to handle_event
\* only when no handler is running.
C30_OneHandlerAtATime ==
    /\ [](/\ Cardinality(handlers_running) <= 1
          /\ \A j, k \in DOMAIN passed : j < k => passed[j].id < passed[k].id)
    /\ [][Len(passed') > Len(passed) => handlers_running = {}]_vars

\* C30 witness: the second handler was invoked after the first had returned,
\* while a third message was already waiting.
C30_Witness ==
    /\ Len(invoked) = 2 /\ handlers_running = {invoked[2]}
    /\ ws_in # <<>>

\* ------------------------------------------------------------ C25
\* C25: execute called with a forecast type outside {current, hourly, 5day}
\* raises ValueError.
C25_InvalidForecastTypeRaises ==
    (w_call.op = "execute" /\ w_call.forecast_type \notin ForecastTypes) =>
        (w_out.raised /\ w_out.exc = "ValueError")

\* ------------------------------------------------------------ C26
ByCityCalled == w_call.op = "get_current_weather_by_city"

GeocodingRequest == Request(GeocodingUrl, w_call.location, "")

\* the call made two requests, the geocoding request and then the weather
\* request for the coordinates the first returned
TwoRequests ==
    /\ Len(w_requests) = 2
    /\ w_requests[1] = GeocodingRequest
    /\ w_requests[2].url = ForecastUrl("current")
    /\ w_requests[2].at = Coordinates(w_call.location)

NoResultRaises ==
    /\ w_out.raised /\ w_out.exc = "ValueError"
    /\ w_requests = <<GeocodingRequest>>

\* C26 as stated: get_current_weather_by_city makes the two requests and
\* returns the weather response, unless geocoding returned no result, when it
\* raises ValueError after the geocoding request alone.
C26_TwoRequestsOrValueError ==
    ByCityCalled =>
        IF w_call.geo = "empty" THEN NoResultRaises
        ELSE /\ TwoRequests
             /\ ~w_out.raised
             /\ w_out.value.kind = ForecastUrl("current")

\* C26 amended: the same when no request fails; a geocoding request that
\* fails, or answers without coordinates, makes the call raise after that
\* one request, and a weather request that fails makes it raise after the two.
C26_TwoRequestsWhenBothSucceed ==
    ByCityCalled =>
        CASE w_call.geo = "empty" -> NoResultRaises
          [] w_call.geo = "found" ->
               /\ TwoRequests
               /\ w_out.raised = (w_call.net # "ok")
               /\ ~w_out.raised =>
                      /\ w_out.value.kind = ForecastUrl("current")
                      /\ w_out.value.at = Coordinates(w_call.location)
               /\ w_out.raised => w_out.exc = "Exception"
          [] OTHER ->
               /\ w_out.raised /\ w_out.exc # "ValueError"
               /\ w_requests = <<GeocodingRequest>>

\* C26 witness: a call for a city that geocoding found, answered by the
\* weather service.
C26_Witness ==
    /\ ByCityCalled /\ w_call.geo = "found" /\ w_call.net = "ok"
    /\ Len(w_requests) = 2 /\ ~w_out.raised

\* ------------------------------------------------------------ C31
\* C31: when the send_tool_result that carries the result of execute_tool
\* raises, no further send_tool_result is made for that call id.
C31_NoSecondSendAfterSendFailure ==
    [][\A c \in CallIds :
            (tc[c].pc = "send_result" /\ tc'[c].pc \notin {"send_result", "done"}) =>
                tc'[c].results = tc[c].results]_vars

\* ------------------------------------------------------------ C32
\* C32: once cleanup has called the Transport's close, no step of cleanup
\* calls send_audio.
C32_NoSendAfterClose ==
    [][(cleanup_pc # "none" /\ cleanup_pc' # cleanup_pc) =>
            Len(sent') <= Len(sent)]_vars

\* ------------------------------------------------------------ C33
\* C33: whenever handle_commands is between two commands, the microphone is
\* unmuted exactly when recording is true.
C33_MicFollowsRecording ==
    (hpc = "get" /\ ~conversation_lock) => (mic_muted <=> ~recording)

\* ------------------------------------------------------------ C34
\* the handling of an 'enter' that found recording true has returned
EnterReturned ==
    /\ hpc = "get" /\ ~conversation_lock
    /\ lastTaken.cmd = "enter" /\ lastTaken.found

\* C34: when stop_recording has returned after it found recording true, the
\* capture stream is closed and self.stream is None.
C34_StreamClosedOnReturn ==
    EnterReturned => (stream = None /\ openStreams = {})

\* C34 witness: stop_recording returned through a send_audio that raised,
\* with frames of the turn still in the buffer.
C34_Witness ==
    /\ EnterReturned /\ sendFailedAt # 0 /\ frames # <<>>
    /\ stream = None /\ ~recording

\* ------------------------------------------------------------ C35
\* C35: every payload sent in a turn is made of the frames captured since
\* the 'r' that started the turn, and while recording the buffer holds those
\* frames only.
C35_OnlyFramesOfTheTurn ==
    /\ \A k \in DOMAIN sent : sent[k].data = Join(captured)
    /\ recording => frames = captured

\* C35 witness: the send of a turn failed and left its frames in the buffer;
\* the payload of the next turn is being sent and holds one frame.
C35_Witness ==
    /\ hpc = "await_send" /\ sendFailedAt # 0
    /\ Len(sent) = 1 /\ Len(captured) = 1 /\ nread >= 2

\* ------------------------------------------------------------ C36
\* a step in which handle_commands takes an 'enter' that passes the
\* readiness test
TakesEnter ==
    taken' # taken /\ lastTaken'.cmd = "enter" /\ lastTaken'.seq # lastTaken.seq

\* C36: a turn in which no frame was captured is closed without a send_audio
\* call, and an 'enter' handled while recording is false calls no send_audio
\* and leaves recording, frames and the capture stream as they are.
C36_EnterWithoutAudio ==
    /\ []((lastTaken.cmd = "enter" /\ lastTaken.found /\ captured = <<>>) =>
            sent = <<>>)
    /\ [][(TakesEnter /\ ~recording) =>
            (/\ sent' = sent /\ recording' = recording /\ frames' = frames
             /\ stream' = stream /\ openStreams' = openStreams)]_vars

\* C36 witness: an 'enter' found a recording whose record_audio task had
\* ended at a failed first read, and its handling has returned.
C36_Witness ==
    /\ EnterReturned /\ captured = <<>> /\ sent = <<>>
    /\ recording_task # None /\ rec[recording_task] = "done"

\* ------------------------------------------------------------ C37
\* the record tasks of the AudioHandler that have not ended
AhAlive == {t \in AhTaskIds : ah_tasks[t] \in {"new", "sleep"}}

\* C37: at most one record task of the AudioHandler is alive, no frame is in
\* self.frames twice, and no read was made on a closed stream.
C37_SingleRecordLoop ==
    /\ Cardinality(AhAlive) <= 1
    /\ \A i, j \in DOMAIN ah_frames : ah_frames[i] = ah_frames[j] => i = j
    /\ ah_closed_reads = 0

\* ------------------------------------------------------------ C38
\* C38: at most one capture stream of the AudioIOHandler is open, and after
\* cleanup every stream start_recording opened is closed.
C38_EveryStreamClosed ==
    /\ Cardinality(io_open) <= 1
    /\ io_cleaned => io_open = {}

\* ------------------------------------------------------------ C39
\* C39: a message is passed to handle_event only when the three conversation
\* handlers are registered, and every conversation event passed to
\* handle_event had its handler invoked (none was reported as unhandled).
C39_HandlersBeforeDispatch ==
    /\ passed # <<>> => ConversationTypes \subseteq event_handlers
    /\ \A k \in DOMAIN passed :
            (passed[k].kind = "event" /\ passed[k].type \in ConversationTypes) =>
                \E j \in DOMAIN invoked : invoked[j] = passed[k].id

\* C39 witness: a conversation event that had arrived before connect
\* returned was dispatched to its handler.
C39_Witness ==
    /\ sp_pc = "done" /\ sp_early >= 1
    /\ passed # <<>> /\ passed[1].id = 1 /\ passed[1].kind = "event"
    /\ passed[1].type \in ConversationTypes
    /\ invoked # <<>> /\ invoked[1] = 1

====
